---------------------------- MODULE Spec2Model ----------------------------
(***************************************************************************)
(* A model of the Danish news bot (deusflow/News): the Sent-Store (the     *)
(* PostgreSQL cache and the JSON file cache behind the CacheAdapter), the  *)
(* publication hash, the publisher loop that uses the store, and the AI    *)
(* enrichment loop with its per-run primary-provider budget.               *)
(*                                                                         *)
(* Strings are sequences of one-character strings, so that the string      *)
(* functions of the code (TrimSpace, Fields, TrimPrefix, Split, ToLower)   *)
(* are computed character by character as the Go library computes them.    *)
(***************************************************************************)
EXTENDS Integers, Sequences, FiniteSets, TLC

VARIABLES
    \* --- publication hash (storage.GenerateNewsHash) ---
    hTitle,      \* the title handed to GenerateNewsHash
    hLink,       \* the link handed to GenerateNewsHash
    hFile,       \* result of FileCache.GenerateNewsHash(hTitle, hLink), or None
    hPg,         \* result of PostgresCache.GenerateNewsHash(hTitle, hLink), or None
    hVar,        \* result for ("  " + upper(hTitle) + "  ", hLink + "#fragment"), or None
    \* --- Sent-Store and publisher ---
    clock,       \* wall-clock time, in hours
    pgRows,      \* the rows of table sent_news (shared by every invocation)
    fileDisk,    \* the records of the JSON cache file (shared by every invocation)
    pc,          \* pc[r]: where invocation r of the pipeline is
    dbDown,      \* dbDown[r]: r asked for the database at startup and it did not answer
    backend,     \* backend[r]: the CacheAdapter r runs with: "postgres", "file", None
    fcItems,     \* fcItems[r]: FileCache.items of r, a map from hash to record
    queue,       \* queue[r]: the items r selected, already filtered against the store
    idx,         \* idx[r]: position in queue[r] of the item being published
    last,        \* last[r]: what r's last store or transport call answered (an error
                 \* is what r logs), NoCall before the first call
    sent,        \* the messages the transport delivered: [run, item, at, store]
    pgMark,      \* history: pgMark[h] = {time of the last MarkAsSent of h that succeeded}
    fcMark,      \* history: fcMark[r][h], the same for r's FileCache (loaded ones included)
    diskMark,    \* history: diskMark[h], the same for the records of the cache file
    \* --- Enricher loop (news.FilterAndTranslateWithOptions) ---
    aiClientSet, \* aiClient != nil: news.SetGeminiClient was called
    enrichErr,   \* the error the function returned, "nil" if none
    optsMaxGeminiRequests,  \* opts.MaxGeminiRequests, 0 = unlimited
    newsLimit,   \* the number of items the loop processes
    loopI,       \* the loop variable i: the items processed so far
    geminiRequests,  \* the per-run counter of the primary provider
    res,         \* the News appended so far, each with where its texts came from
    returned,    \* the function has returned res
    \* --- sanitation of AI output (translate.SanitizeAIText) ---
    sanIn,       \* the text handed to SanitizeAIText
    sanOut,      \* what SanitizeAIText returned
    sanDone,     \* SanitizeAIText has returned
    \* --- one summary field (translate.SummarizeText and its caller) ---
    sumText,     \* the content to summarize
    sumAnswers,  \* sumAnswers[p]: what provider p answers when it is called
    sumPc,       \* where SummarizeText is
    sumCalls,    \* the providers called so far, in the order of the calls
    sumRet,      \* what SummarizeText returned: [s, err]
    sumField,    \* the summary field of the item after the caller assigned it
    \* --- one call of the transport (package telegram) ---
    tgFunc,      \* the function called: SendMessage or SendMessageAllowPreview
    tgResponses, \* tgResponses[k]: what the Bot API answers to the k-th POST
    tgAttempt,   \* the loop variable attempt
    tgDeliveries, \* the POSTs answered with HTTP 200: copies of the message in the chat
    tgRet,       \* what the function returned: "nil", "error"; "running" before
    \* --- the sending phase of app.Run ---
    appNews,     \* len(filtered): the News FilterAndTranslate returned
    appMode,     \* BOT_MODE: "single", or anything else ("multiple")
    appLong,     \* the message with two news is longer than 4000 bytes
    appResponses, \* what the Bot API answers to the POSTs of SendMessage
    appPc,       \* where Run is
    appMsg,      \* the news (positions in filtered) of the message handed to SendMessage
    appDelivered, \* the news delivered to the chat
    appSendErr,  \* telegram.SendMessage returned an error
    appExit,     \* "running", "returned" (Run returned), "fatal" (log.Fatalf: os.Exit(1))
    \* --- the rate limiter (ratelimit.AIRateLimiter) ---
    rlNow,       \* time.Now(), in reset periods
    rlResetTime, \* rl.resetTime
    rlCount,     \* rlCount[p]: rl.geminiCount, rl.groqCount
    rlTotal,     \* rl.totalCount
    rlMu,        \* rl.mu: "free", or the goroutine that holds it
    rlStack,     \* rlStack[g]: the limiter methods goroutine g is in, outermost first
    rlPc,        \* rlPc[g]: "idle", "lock" (in rl.mu.Lock()), "locked", "body"
    rlResult,    \* rlResult[g]: how g's last call ended, "none" while it runs
    \* --- title similarity (news.jaccardSimilarity) ---
    jA,          \* the string a
    jB,          \* the string b
    jK,          \* the shingle size k
    jAB,         \* jaccardSimilarity(a, b, k), as a fraction [num, den]
    jBA,         \* jaccardSimilarity(b, a, k)
    jAA,         \* jaccardSimilarity(a, a, k)
    jDone,       \* the three similarities are computed
    \* --- the filter loop of FilterAndTranslateWithOptions ---
    ddItems,     \* the feed items handed to the filter
    ddI,         \* how many of them the loop has seen
    seenLinks,   \* the normalized links seen in this run
    seenContent, \* the content keys seen in this run
    seenSimilar, \* the similarity keys seen in this run
    seenTitles,  \* the titles of the candidates
    candidates,  \* the indices of the items that became candidates
    ddFate,      \* what became of each item the loop has seen
    \* --- the Selector (selectDiverse) ---
    selCandidates,  \* the sorted candidates
    selLimit,       \* opts.Limit
    selPerSource,   \* opts.PerSource
    selPerCategory, \* opts.PerCategory
    selOut,         \* what selectDiverse returned
    selDone,        \* the selection is over
    \* --- retry.WithRetry ---
    rtMaxAttempts,  \* config.MaxAttempts
    rtBackoff,      \* config.Backoff
    rtAttempt,      \* the loop variable attempt
    rtPc,           \* where the call is: loop, select, done
    rtResults,      \* what the invocations of fn returned, in order
    rtLastErr,      \* lastErr
    rtWaited,       \* the delays waited, in units of config.Delay
    rtCtxDone,      \* ctx is cancelled
    rtRet,          \* what WithRetry returned
    \* --- the scraper run and the content of the selected items ---
    scUrls,         \* the number of selected items, whose links are urls
    scMaxArticles,  \* cfg.ScrapeMaxArticles
    scConcurrency,  \* cfg.ScrapeConcurrency
    scI,            \* the loop index of ExtractArticlesInBackground
    scInFlight,     \* the URLs with a request under way
    scAttempted,    \* the URLs handed to ExtractFullArticle
    scResult,       \* the result map, by the index of the URL
    scPc,           \* scrape, then content
    scContent,      \* where n.Content of each item comes from
    \* --- the waits of a run and its cancellation ---
    cnItems,        \* the selected items the Enricher loop has not done yet
    cnPc,           \* call, pause, send, backoff, done
    cnAttempt,      \* attempt of SendMessage
    cnCancelled,    \* the run-level cancellation was signalled
    cnCallsAfter,   \* outbound calls started after the cancellation
    cnWaitsAfter,   \* waits that ran to their end after the cancellation
    cnRet,          \* what SendMessage returned
    \* --- the image of an item ---
    imItem,         \* the feed item
    imStep,         \* start, then the step that gave the image
    imURL,          \* what extractImageURL returned
    \* --- the in-memory cache ---
    chItems,        \* c.items: key -> ExpiresAt
    chNow,          \* time.Now()
    chReaders,      \* the goroutines that hold c.mu for reading
    chWriter,       \* the goroutine that holds c.mu for writing, if any
    chPc,           \* where each goroutine is in its call
    chKey,          \* the key of the call of each goroutine
    chCrashed       \* the runtime stopped the program

hashVars == <<hTitle, hLink, hFile, hPg, hVar>>

storeVars == <<clock, pgRows, fileDisk, pc, dbDown, backend, fcItems, queue, idx,
               last, sent, pgMark, fcMark, diskMark>>

enrichVars == <<aiClientSet, enrichErr, optsMaxGeminiRequests, newsLimit, loopI,
               geminiRequests, res, returned>>

sanitizeVars == <<sanIn, sanOut, sanDone>>

summarizeVars == <<sumText, sumAnswers, sumPc, sumCalls, sumRet, sumField>>

telegramVars == <<tgFunc, tgResponses, tgAttempt, tgDeliveries, tgRet>>

appVars == <<appNews, appMode, appLong, appResponses, appPc, appMsg, appDelivered,
            appSendErr, appExit>>

limiterVars == <<rlNow, rlResetTime, rlCount, rlTotal, rlMu, rlStack, rlPc, rlResult>>

jaccardVars == <<jA, jB, jK, jAB, jBA, jAA, jDone>>

dedupVars == <<ddItems, ddI, seenLinks, seenContent, seenSimilar, seenTitles,
               candidates, ddFate>>

selectVars == <<selCandidates, selLimit, selPerSource, selPerCategory, selOut,
                selDone>>

retryVars == <<rtMaxAttempts, rtBackoff, rtAttempt, rtPc, rtResults, rtLastErr,
               rtWaited, rtCtxDone, rtRet>>

scrapeVars == <<scUrls, scMaxArticles, scConcurrency, scI, scInFlight, scAttempted,
                scResult, scPc, scContent>>

cancelVars == <<cnItems, cnPc, cnAttempt, cnCancelled, cnCallsAfter, cnWaitsAfter, cnRet>>

imageVars == <<imItem, imStep, imURL>>

cacheVars == <<chItems, chNow, chReaders, chWriter, chPc, chKey, chCrashed>>

\* what the actions of one part of the program leave alone
hashOthers == <<storeVars, enrichVars, sanitizeVars, summarizeVars,
                telegramVars, appVars, limiterVars, jaccardVars, dedupVars,
                selectVars, retryVars, scrapeVars, cancelVars, imageVars,
                cacheVars>>

storeOthers == <<hashVars, enrichVars, sanitizeVars, summarizeVars,
                 telegramVars, appVars, limiterVars, jaccardVars, dedupVars,
                 selectVars, retryVars, scrapeVars, cancelVars, imageVars,
                 cacheVars>>

enrichOthers == <<hashVars, storeVars, sanitizeVars, summarizeVars,
                  telegramVars, appVars, limiterVars, jaccardVars, dedupVars,
                  selectVars, retryVars, scrapeVars, cancelVars, imageVars,
                  cacheVars>>

sanitizeOthers == <<hashVars, storeVars, enrichVars, summarizeVars,
                    telegramVars, appVars, limiterVars, jaccardVars,
                    dedupVars, selectVars, retryVars, scrapeVars, cancelVars,
                    imageVars, cacheVars>>

summarizeOthers == <<hashVars, storeVars, enrichVars, sanitizeVars,
                     telegramVars, appVars, limiterVars, jaccardVars,
                     dedupVars, selectVars, retryVars, scrapeVars, cancelVars,
                     imageVars, cacheVars>>

telegramOthers == <<hashVars, storeVars, enrichVars, sanitizeVars,
                    summarizeVars, appVars, limiterVars, jaccardVars,
                    dedupVars, selectVars, retryVars, scrapeVars, cancelVars,
                    imageVars, cacheVars>>

appOthers == <<hashVars, storeVars, enrichVars, sanitizeVars, summarizeVars,
               telegramVars, limiterVars, jaccardVars, dedupVars, selectVars,
               retryVars, scrapeVars, cancelVars, imageVars, cacheVars>>

limiterOthers == <<hashVars, storeVars, enrichVars, sanitizeVars,
                   summarizeVars, telegramVars, appVars, jaccardVars,
                   dedupVars, selectVars, retryVars, scrapeVars, cancelVars,
                   imageVars, cacheVars>>

jaccardOthers == <<hashVars, storeVars, enrichVars, sanitizeVars,
                   summarizeVars, telegramVars, appVars, limiterVars,
                   dedupVars, selectVars, retryVars, scrapeVars, cancelVars,
                   imageVars, cacheVars>>

dedupOthers == <<hashVars, storeVars, enrichVars, sanitizeVars, summarizeVars,
                 telegramVars, appVars, limiterVars, jaccardVars, selectVars,
                 retryVars, scrapeVars, cancelVars, imageVars, cacheVars>>

selectOthers == <<hashVars, storeVars, enrichVars, sanitizeVars,
                  summarizeVars, telegramVars, appVars, limiterVars,
                  jaccardVars, dedupVars, retryVars, scrapeVars, cancelVars,
                  imageVars, cacheVars>>

retryOthers == <<hashVars, storeVars, enrichVars, sanitizeVars, summarizeVars,
                 telegramVars, appVars, limiterVars, jaccardVars, dedupVars,
                 selectVars, scrapeVars, cancelVars, imageVars, cacheVars>>

scrapeOthers == <<hashVars, storeVars, enrichVars, sanitizeVars,
                  summarizeVars, telegramVars, appVars, limiterVars,
                  jaccardVars, dedupVars, selectVars, retryVars, cancelVars,
                  imageVars, cacheVars>>

cancelOthers == <<hashVars, storeVars, enrichVars, sanitizeVars,
                  summarizeVars, telegramVars, appVars, limiterVars,
                  jaccardVars, dedupVars, selectVars, retryVars, scrapeVars,
                  imageVars, cacheVars>>

imageOthers == <<hashVars, storeVars, enrichVars, sanitizeVars, summarizeVars,
                 telegramVars, appVars, limiterVars, jaccardVars, dedupVars,
                 selectVars, retryVars, scrapeVars, cancelVars, cacheVars>>

cacheOthers == <<hashVars, storeVars, enrichVars, sanitizeVars, summarizeVars,
                 telegramVars, appVars, limiterVars, jaccardVars, dedupVars,
                 selectVars, retryVars, scrapeVars, cancelVars, imageVars>>

None == "none"

\* ------------------------------------------------------------------------
\* Bounds of the model
\* ------------------------------------------------------------------------
MaxTitleLen == 2
\* the clock stops here
MaxTime == 2
\* the TTL of a SentRecord in hours (CACHE_TTL_HOURS, 48 by default), scaled down
TTLHours == 1
\* the longest list of items an invocation publishes
MaxQueue == 2
\* the most items the Enricher loop is given
MaxNews == 3
\* the largest primary-provider budget
MaxBudget == 2
\* the longest text handed to SanitizeAIText
MaxSanLen == 5
\* the longest string handed to jaccardSimilarity
MaxJLen == 3
MaxItems == 2
MaxCandidates == 3
MaxLimit == 2
MaxCap == 2
MaxRetryAttempts == 4
MaxUrls == 6
MaxRunItems == 3
MaxEnclosures == 1
MaxFound == 1
MaxClock == 2
\* the limiter's clock stops here
MaxNow == 2
\* the time between two resets of the limiter (24 hours), as the unit of its clock
ResetPeriod == 1
\* maxTotal of the limiter
MaxTotal == 2

\* ------------------------------------------------------------------------
\* Strings
\* ------------------------------------------------------------------------
S_http == <<"h", "t", "t", "p", ":", "/", "/">>
S_https == <<"h", "t", "t", "p", "s", ":", "/", "/">>
S_www == <<"w", "w", "w", ".">>
S_WWW == <<"W", "W", "W", ".">>
S_unknown == <<"u", "n", "k", "n", "o", "w", "n">>
S_fragment == <<"#", "f", "r", "a", "g", "m", "e", "n", "t">>
S_drdk == <<"d", "r", ".", "d", "k">>
S_DRdk == <<"D", "R", ".", "d", "k">>

Uppers == <<"A", "B", "D", "E", "I", "K", "N", "R", "T", "W", "Y">>
Lowers == <<"a", "b", "d", "e", "i", "k", "n", "r", "t", "w", "y">>

\* unicode.ToLower on the characters of the model's alphabet
LowerChar(c) ==
    IF \E i \in 1..Len(Uppers) : Uppers[i] = c
      THEN Lowers[CHOOSE i \in 1..Len(Uppers) : Uppers[i] = c]
      ELSE c

\* unicode.ToUpper on the characters of the model's alphabet. "i-dotless"
\* stands for the one character U+0131 (Turkish dotless i): its upper case
\* is "I", whose lower case is the dotted "i".
UpperChar(c) ==
    IF c = "i-dotless" THEN "I"
    ELSE IF \E i \in 1..Len(Lowers) : Lowers[i] = c
      THEN Uppers[CHOOSE i \in 1..Len(Lowers) : Lowers[i] = c]
      ELSE c

\* strings.ToLower / strings.ToUpper
ToLower(s) == [i \in 1..Len(s) |-> LowerChar(s[i])]
ToUpper(s) == [i \in 1..Len(s) |-> UpperChar(s[i])]

\* unicode.IsSpace on the model's alphabet
IsSpace(c) == c \in {" ", "\n"}

\* strings.TrimSpace
RECURSIVE TrimLeft(_)
TrimLeft(s) ==
    IF s # <<>> /\ IsSpace(Head(s)) THEN TrimLeft(Tail(s)) ELSE s

RECURSIVE TrimRight(_)
TrimRight(s) ==
    IF s # <<>> /\ IsSpace(s[Len(s)]) THEN TrimRight(SubSeq(s, 1, Len(s) - 1)) ELSE s

TrimSpace(s) == TrimRight(TrimLeft(s))

\* strings.Fields: the maximal runs of non-space characters
RECURSIVE FieldsFrom(_, _, _)
FieldsFrom(s, cur, acc) ==
    IF s = <<>>
      THEN IF cur = <<>> THEN acc ELSE Append(acc, cur)
      ELSE IF IsSpace(Head(s))
             THEN FieldsFrom(Tail(s), <<>>, IF cur = <<>> THEN acc ELSE Append(acc, cur))
             ELSE FieldsFrom(Tail(s), Append(cur, Head(s)), acc)

Fields(s) == FieldsFrom(s, <<>>, <<>>)

\* strings.Join(parts, sep)
RECURSIVE Join(_, _)
Join(parts, sep) ==
    IF parts = <<>> THEN <<>>
    ELSE IF Len(parts) = 1 THEN parts[1]
    ELSE parts[1] \o sep \o Join(Tail(parts), sep)

\* strings.HasPrefix / strings.TrimPrefix
HasPrefix(s, p) == Len(s) >= Len(p) /\ SubSeq(s, 1, Len(p)) = p

TrimPrefix(s, p) == IF HasPrefix(s, p) THEN SubSeq(s, Len(p) + 1, Len(s)) ELSE s

\* strings.Split(s, "/")[0]: the text before the first "/"
RECURSIVE BeforeSlash(_)
BeforeSlash(s) ==
    IF s = <<>> \/ Head(s) = "/" THEN <<>> ELSE <<Head(s)>> \o BeforeSlash(Tail(s))

\* hex(SHA-256(s))[:16]. The digest is not computed: it is a value that is
\* equal for equal preimages and, in the model, different for different ones.
Sha256Hex16(s) == <<"sha256_16", s>>

\* ------------------------------------------------------------------------
\* The publication hash
\* ------------------------------------------------------------------------

\* extractDomain(url)
extractDomain(url) ==
    IF url = <<>> THEN S_unknown
    ELSE LET u1 == TrimPrefix(url, S_http)
             u2 == TrimPrefix(u1, S_https)
             domain == TrimPrefix(BeforeSlash(u2), S_www)
         IN  ToLower(domain)

\* a GenerateNewsHash that forgets to lower-case the title
GenerateNewsHash_NoLower(title, link) ==
    Sha256Hex16(Join(Fields(TrimSpace(title)), <<" ">>) \o <<"|">> \o extractDomain(link))

\* FileCache.GenerateNewsHash(title, link)
FileGenerateNewsHash(title, link) ==
    LET normalizedTitle == Join(Fields(ToLower(TrimSpace(title))), <<" ">>)
        domain == extractDomain(link)
    IN  Sha256Hex16(normalizedTitle \o <<"|">> \o domain)

\* a PostgresCache.GenerateNewsHash with a normalisation of its own, which
\* hashes the raw link instead of its domain
PostgresGenerateNewsHash_OwnLogic(title, link) ==
    Sha256Hex16(Join(Fields(ToLower(TrimSpace(title))), <<" ">>) \o <<"|">> \o link)

\* PostgresCache.GenerateNewsHash(title, link): delegates to a fresh FileCache
PostgresGenerateNewsHash(title, link) == FileGenerateNewsHash(title, link)

\* --- inputs of the hash specification ---
TitleAlphabet == {"a", "A", " ", "i-dotless"}

RECURSIVE SeqsUpTo(_, _)
SeqsUpTo(S, n) ==
    IF n = 0 THEN {<<>>}
    ELSE LET shorter == SeqsUpTo(S, n - 1)
         IN  shorter \cup {Append(s, c) : s \in {t \in shorter : Len(t) = n - 1}, c \in S}

Titles == SeqsUpTo(TitleAlphabet, MaxTitleLen)

Schemes == {<<>>, S_http, S_https}
WwwParts == {<<>>, S_www, S_WWW}
Hosts == {S_drdk, S_DRdk}
Paths == {<<>>, <<"/">>, <<"/", "a">>}

Links == {<<>>} \cup {s \o w \o h \o p : s \in Schemes, w \in WwwParts, h \in Hosts, p \in Paths}

\* "  " + strings.ToUpper(title) + "  "
PaddedUpper(title) == <<" ", " ">> \o ToUpper(title) \o <<" ", " ">>

InitHash ==
    /\ hTitle \in Titles
    /\ hLink \in Links
    /\ hFile = None
    /\ hPg = None
    /\ hVar = None

\* the file store hashes the item
HashByFile ==
    /\ hFile = None
    /\ hFile' = FileGenerateNewsHash(hTitle, hLink)
    /\ UNCHANGED <<hTitle, hLink, hPg, hVar>>
    /\ UNCHANGED hashOthers

\* the transactional store hashes the item
HashByPostgres ==
    /\ hPg = None
    /\ hPg' = PostgresGenerateNewsHash(hTitle, hLink)
    /\ UNCHANGED <<hTitle, hLink, hFile, hVar>>
    /\ UNCHANGED hashOthers

\* the store hashes the re-cased, padded title and the link with a fragment
HashVariant ==
    /\ hVar = None
    /\ hVar' = FileGenerateNewsHash(PaddedUpper(hTitle), hLink \o S_fragment)
    /\ UNCHANGED <<hTitle, hLink, hFile, hPg>>
    /\ UNCHANGED hashOthers

NextHash == HashByFile \/ HashByPostgres \/ HashVariant

\* ------------------------------------------------------------------------
\* The Sent-Store: PostgresCache, FileCache and the CacheAdapter
\* ------------------------------------------------------------------------
Runs == {"r1", "r2"}

\* The feed items the invocations may select. I1 and I2 are the same story
\* (same normalised title, same domain, so the same publication hash) under
\* two links; I3 is another story under the link of I1.
ItemIds == {"I1", "I2", "I3"}

ItemById ==
    [i \in ItemIds |->
        CASE i = "I1" -> [title |-> <<"N", "y", "t">>,
                          link |-> S_https \o S_drdk \o <<"/", "a">>,
                          category |-> "denmark", source |-> "DR"]
          [] i = "I2" -> [title |-> <<" ", "N", "Y", "T", " ">>,
                          link |-> S_https \o S_www \o S_drdk \o <<"/", "b">>,
                          category |-> "ukraine", source |-> "DR"]
          [] i = "I3" -> [title |-> <<"T", "e">>,
                          link |-> S_https \o S_drdk \o <<"/", "a">>,
                          category |-> "tech", source |-> "DR"]]

\* SentNewsItem / a row of sent_news (id and created_at play no part)
SentNewsItem(hash, title, link, category, source, sentAt) ==
    [hash |-> hash, title |-> title, link |-> link, category |-> category,
     source |-> source, sentAt |-> sentAt]

\* cutoffTime := time.Now().Add(-time.Duration(ttlHours) * time.Hour)
CutoffTime(now) == now - TTLHours

\* NewPostgresCache that does not ping the database it opened
NewPostgresCache_NoPing(db) ==
    IF db = "open_fails" THEN "failed to connect to database"
    ELSE IF db = "schema_fails" THEN "failed to initialize schema"
    ELSE "ok"

\* NewPostgresCache(connectionString, ttlHours): "ok" or the error. db says
\* how the database answers: "up", "open_fails", "ping_fails", "schema_fails".
NewPostgresCache(db) ==
    IF db = "open_fails" THEN "failed to connect to database"
    ELSE IF db = "ping_fails" THEN "failed to ping database"
    ELSE IF db = "schema_fails" THEN "failed to initialize schema"
    ELSE "ok"

DbAnswers == {"up", "open_fails", "ping_fails", "schema_fails"}

\* PostgresCache.IsAlreadySent with the comparison sent_at >= cutoff
PgIsAlreadySent_Inclusive(rows, hash, now, queryErr) ==
    IF queryErr THEN FALSE
    ELSE Cardinality({r \in rows : r.hash = hash /\ r.sentAt >= CutoffTime(now)}) > 0

\* PostgresCache.IsAlreadySent(hash); a failed query is logged and answers false
PgIsAlreadySent(rows, hash, now, queryErr) ==
    IF queryErr THEN FALSE
    ELSE Cardinality({r \in rows : r.hash = hash /\ r.sentAt > CutoffTime(now)}) > 0

\* PostgresCache.IsLinkAlreadySent that never finds a link
PgIsLinkAlreadySent_Never(rows, link, now, queryErr) == FALSE

\* PostgresCache.IsLinkAlreadySent(link)
PgIsLinkAlreadySent(rows, link, now, queryErr) ==
    IF queryErr THEN FALSE
    ELSE Cardinality({r \in rows : r.link = link /\ r.sentAt > CutoffTime(now)}) > 0

\* PostgresCache.MarkAsSent as a plain INSERT, without ON CONFLICT
PgMarkAsSent_PlainInsert(rows, hash, title, link, category, source, now) ==
    rows \cup {SentNewsItem(hash, title, link, category, source, now)}

\* PostgresCache.MarkAsSent(hash, title, link, category, source):
\* INSERT ... VALUES (..., NOW()) ON CONFLICT (hash) DO UPDATE SET sent_at = NOW()
PgMarkAsSent(rows, hash, title, link, category, source, now) ==
    IF \E r \in rows : r.hash = hash
      THEN {IF r.hash = hash THEN [r EXCEPT !.sentAt = now] ELSE r : r \in rows}
      ELSE rows \cup {SentNewsItem(hash, title, link, category, source, now)}

\* PostgresCache.Cleanup(): DELETE FROM sent_news WHERE sent_at < cutoff
PgCleanup(rows, now) == {r \in rows : ~(r.sentAt < CutoffTime(now))}

EmptyItems == [h \in {} |-> None]

\* FileCache.Load(): the records of the file that are still within TTL
FileLoad(disk, now) ==
    LET live == {r \in disk : r.sentAt > CutoffTime(now)}
    IN  [h \in {r.hash : r \in live} |-> CHOOSE r \in live : r.hash = h]

\* FileCache.Save(): the file is rewritten with every item of the map
FileSave(items) == {items[h] : h \in DOMAIN items}

\* FileCache.IsAlreadySent(hash)
FileIsAlreadySent(items, hash, now) ==
    IF hash \notin DOMAIN items THEN FALSE
    ELSE items[hash].sentAt > CutoffTime(now)

\* FileCache.MarkAsSent(hash, title, link, category, source)
FileMarkAsSent(items, hash, title, link, category, source, now) ==
    [h \in DOMAIN items \cup {hash} |->
        IF h = hash THEN SentNewsItem(hash, title, link, category, source, now)
        ELSE items[h]]

\* FileCache.Cleanup()
FileCleanup(items, now) ==
    [h \in {k \in DOMAIN items : ~(items[k].sentAt < CutoffTime(now))} |-> items[h]]

\* FileCacheAdapter.IsLinkAlreadySent(link): the file cache checks by hash only
FileAdapterIsLinkAlreadySent(link) == FALSE

\* CacheAdapter.GenerateNewsHash, by the adapter in use
AdapterGenerateNewsHash(b, title, link) ==
    IF b = "postgres" THEN PostgresGenerateNewsHash(title, link)
    ELSE FileGenerateNewsHash(title, link)

\* CacheAdapter.IsAlreadySent of invocation r
AdapterIsAlreadySent(r, hash, queryErr) ==
    IF backend[r] = "postgres" THEN PgIsAlreadySent(pgRows, hash, clock, queryErr)
    ELSE FileIsAlreadySent(fcItems[r], hash, clock)

\* CacheAdapter.IsLinkAlreadySent of invocation r
AdapterIsLinkAlreadySent(r, link, queryErr) ==
    IF backend[r] = "postgres" THEN PgIsLinkAlreadySent(pgRows, link, clock, queryErr)
    ELSE FileAdapterIsLinkAlreadySent(link)

ItemHash(r, i) == AdapterGenerateNewsHash(backend[r], ItemById[i].title, ItemById[i].link)

Hashes == {FileGenerateNewsHash(ItemById[i].title, ItemById[i].link) : i \in ItemIds}

\* no MarkAsSent of any hash has succeeded
NoMarks == [h \in Hashes |-> {}]

\* an invocation that has made no store or transport call yet
NoCall == [call |-> "none"]

\* the item lists an invocation can come to select: the in-run Deduper lets
\* no two items with the same link or the same story through
Selections ==
    {q \in SeqsUpTo(ItemIds, MaxQueue) :
        \A a, b \in 1..Len(q) :
            a # b => /\ ItemById[q[a]].link # ItemById[q[b]].link
                     /\ FileGenerateNewsHash(ItemById[q[a]].title, ItemById[q[a]].link)
                          # FileGenerateNewsHash(ItemById[q[b]].title, ItemById[q[b]].link)}

RECURSIVE FilterSeq(_, _)
FilterSeq(q, keep) ==
    IF q = <<>> THEN <<>>
    ELSE IF keep[Head(q)] THEN <<Head(q)>> \o FilterSeq(Tail(q), keep)
    ELSE FilterSeq(Tail(q), keep)

InitStore ==
    /\ clock = 0
    /\ pgRows = {}
    /\ fileDisk = {}
    /\ pc = [r \in Runs |-> "init"]
    /\ dbDown = [r \in Runs |-> FALSE]
    /\ backend = [r \in Runs |-> None]
    /\ fcItems = [r \in Runs |-> EmptyItems]
    /\ queue = [r \in Runs |-> <<>>]
    /\ idx = [r \in Runs |-> 1]
    /\ last = [r \in Runs |-> NoCall]
    /\ sent = {}
    /\ pgMark = NoMarks
    /\ fcMark = [r \in Runs |-> NoMarks]
    /\ diskMark = NoMarks

\* time passes
Tick ==
    /\ clock < MaxTime
    /\ clock' = clock + 1
    /\ UNCHANGED <<pgRows, fileDisk, pc, dbDown, backend, fcItems, queue, idx,
                   last, sent, pgMark, fcMark, diskMark>>
    /\ UNCHANGED storeOthers

\* Startup of invocation r: the transactional store if it is configured and
\* NewPostgresCache succeeds, otherwise the file cache, loaded from its file;
\* then, if asked for, the purge of the expired records. The invocations
\* are alike, so the first to start is called r1.
Startup(r) ==
    /\ pc[r] = "init"
    /\ r = "r2" => pc["r1"] # "init"
    /\ \E usePostgres \in BOOLEAN, db \in DbAnswers, purge \in BOOLEAN :
          LET opened == IF usePostgres THEN NewPostgresCache(db) ELSE "not configured"
              b == IF opened = "ok" THEN "postgres" ELSE "file"
              loaded == FileLoad(fileDisk, clock)
          IN  /\ dbDown' = [dbDown EXCEPT ![r] = usePostgres /\ db # "up"]
              /\ backend' = [backend EXCEPT ![r] = b]
              /\ fcItems' = [fcItems EXCEPT ![r] =
                               IF b # "file" THEN EmptyItems
                               ELSE IF purge THEN FileCleanup(loaded, clock) ELSE loaded]
              /\ pgRows' = IF b = "postgres" /\ purge THEN PgCleanup(pgRows, clock) ELSE pgRows
              /\ fcMark' = [fcMark EXCEPT ![r] = IF b = "file" THEN diskMark ELSE NoMarks]
    /\ pc' = [pc EXCEPT ![r] = "started"]
    /\ UNCHANGED <<clock, fileDisk, queue, idx, last, sent, pgMark, diskMark>>
    /\ UNCHANGED storeOthers

\* Check 1 of the triple-check: r selects its items and drops those whose
\* hash or link the store already holds.
SelectAndFilter(r) ==
    /\ pc[r] = "started"
    /\ \E q \in Selections, queryErr \in (IF backend[r] = "postgres" THEN BOOLEAN ELSE {FALSE}) :
          LET keep == [i \in ItemIds |->
                          ~(\/ AdapterIsAlreadySent(r, ItemHash(r, i), queryErr)
                            \/ AdapterIsLinkAlreadySent(r, ItemById[i].link, queryErr))]
          IN  queue' = [queue EXCEPT ![r] = FilterSeq(q, keep)]
    /\ idx' = [idx EXCEPT ![r] = 1]
    /\ pc' = [pc EXCEPT ![r] = "precheck"]
    /\ UNCHANGED <<clock, pgRows, fileDisk, dbDown, backend, fcItems, last, sent,
                   pgMark, fcMark, diskMark>>
    /\ UNCHANGED storeOthers

\* Check 2: immediately before the send r asks the store again, and skips
\* the item if its hash or its link is there.
PreSendCheck(r) ==
    /\ pc[r] = "precheck"
    /\ idx[r] <= Len(queue[r])
    /\ \E hashErr, linkErr \in (IF backend[r] = "postgres" THEN BOOLEAN ELSE {FALSE}) :
          LET i == queue[r][idx[r]]
              hashHit == AdapterIsAlreadySent(r, ItemHash(r, i), hashErr)
              linkAsked == ~hashHit
              linkHit == linkAsked /\ AdapterIsLinkAlreadySent(r, ItemById[i].link, linkErr)
          IN  /\ linkErr => linkAsked
              /\ last' = [last EXCEPT ![r] = [call |-> "check", item |-> i, pos |-> idx[r],
                                             hashHit |-> hashHit, linkHit |-> linkHit,
                                             hashErr |-> hashErr, linkErr |-> linkErr]]
              /\ IF hashHit \/ linkHit
                   THEN /\ idx' = [idx EXCEPT ![r] = idx[r] + 1]
                        /\ UNCHANGED pc
                   ELSE /\ pc' = [pc EXCEPT ![r] = "send"]
                        /\ UNCHANGED idx
    /\ UNCHANGED <<clock, pgRows, fileDisk, dbDown, backend, fcItems, queue, sent,
                   pgMark, fcMark, diskMark>>
    /\ UNCHANGED storeOthers

\* a publisher that goes on to the next item after a delivered send
AfterSend_NextItem(delivered) == "precheck"

\* where the publisher goes after the transport send: to MarkAsSent if the
\* message was delivered, to the next item if it was not
AfterSend(delivered) == IF delivered THEN "mark" ELSE "precheck"

\* The transport send of r's current item: delivered, or failed for good.
SendItem(r) ==
    /\ pc[r] = "send"
    /\ \E delivered \in BOOLEAN :
          /\ last' = [last EXCEPT ![r] = [call |-> "send", item |-> queue[r][idx[r]],
                                         pos |-> idx[r], ok |-> delivered]]
          /\ pc' = [pc EXCEPT ![r] = AfterSend(delivered)]
          /\ IF delivered
               THEN /\ sent' = sent \cup {[run |-> r, item |-> queue[r][idx[r]], at |-> clock,
                                          store |-> backend[r]]}
                    /\ UNCHANGED idx
               ELSE /\ idx' = [idx EXCEPT ![r] = idx[r] + 1]
                    /\ UNCHANGED sent
    /\ UNCHANGED <<clock, pgRows, fileDisk, dbDown, backend, fcItems, queue,
                   pgMark, fcMark, diskMark>>
    /\ UNCHANGED storeOthers

\* Check 3: immediately after the send r records the item in the store. A
\* failure of MarkAsSent is logged; the message stays sent and r goes on.
MarkItem(r) ==
    /\ pc[r] = "mark"
    /\ \E markErr \in (IF backend[r] = "postgres" THEN BOOLEAN ELSE {FALSE}) :
          LET i == queue[r][idx[r]]
              n == ItemById[i]
              h == ItemHash(r, i)
          IN  /\ last' = [last EXCEPT ![r] = [call |-> "mark", item |-> i, pos |-> idx[r],
                                             ok |-> ~markErr]]
              /\ IF markErr
                   THEN UNCHANGED <<pgRows, fcItems, pgMark, fcMark>>
                   ELSE IF backend[r] = "postgres"
                          THEN /\ pgRows' = PgMarkAsSent(pgRows, h, n.title, n.link,
                                                         n.category, n.source, clock)
                               /\ pgMark' = [pgMark EXCEPT ![h] = {clock}]
                               /\ UNCHANGED <<fcItems, fcMark>>
                          ELSE /\ fcItems' = [fcItems EXCEPT ![r] =
                                                FileMarkAsSent(fcItems[r], h, n.title, n.link,
                                                               n.category, n.source, clock)]
                               /\ fcMark' = [fcMark EXCEPT ![r][h] = {clock}]
                               /\ UNCHANGED <<pgRows, pgMark>>
    /\ idx' = [idx EXCEPT ![r] = idx[r] + 1]
    /\ pc' = [pc EXCEPT ![r] = "precheck"]
    /\ UNCHANGED <<clock, fileDisk, dbDown, backend, queue, sent, diskMark>>
    /\ UNCHANGED storeOthers

\* End of invocation r: the file cache is saved (the connection is closed)
\* and the process, with all it held in memory, is gone.
Finish(r) ==
    /\ pc[r] = "precheck"
    /\ idx[r] > Len(queue[r])
    /\ IF backend[r] = "file"
         THEN /\ fileDisk' = FileSave(fcItems[r])
              /\ diskMark' = fcMark[r]
         ELSE UNCHANGED <<fileDisk, diskMark>>
    /\ pc' = [pc EXCEPT ![r] = "done"]
    /\ dbDown' = [dbDown EXCEPT ![r] = FALSE]
    /\ backend' = [backend EXCEPT ![r] = None]
    /\ fcItems' = [fcItems EXCEPT ![r] = EmptyItems]
    /\ fcMark' = [fcMark EXCEPT ![r] = NoMarks]
    /\ queue' = [queue EXCEPT ![r] = <<>>]
    /\ idx' = [idx EXCEPT ![r] = 1]
    /\ last' = [last EXCEPT ![r] = NoCall]
    /\ UNCHANGED <<clock, pgRows, sent, pgMark>>
    /\ UNCHANGED storeOthers

NextStore ==
    \/ Tick
    \/ \E r \in Runs : Startup(r)
    \/ \E r \in Runs : SelectAndFilter(r)
    \/ \E r \in Runs : PreSendCheck(r)
    \/ \E r \in Runs : SendItem(r)
    \/ \E r \in Runs : MarkItem(r)
    \/ \E r \in Runs : Finish(r)

\* ------------------------------------------------------------------------
\* Sanitation of AI output (translate.SanitizeAIText)
\* ------------------------------------------------------------------------
\* A text is a string over this alphabet: "w" is a letter of ordinary text,
\* "N" stands for the keyword note / disclaimer, "M" for a disclaimer phrase
\* that both reParen and rePhrase know ("ai language model", "this
\* translation is a machine translation"); the other characters are
\* themselves. The regular expressions are matched as Go's regexp matches
\* them: leftmost first, greedy, non-overlapping in ReplaceAllString.
WordChars == {"w", "N", "M"}

\* the first position >= i of s that holds no white space (Len(s) + 1 if none)
RECURSIVE SkipSpaces(_, _)
SkipSpaces(s, i) ==
    IF i <= Len(s) /\ IsSpace(s[i]) THEN SkipSpaces(s, i + 1) ELSE i

\* the first position >= i of s that holds a character of C, 0 if none
RECURSIVE IndexFrom(_, _, _)
IndexFrom(s, i, C) ==
    IF i > Len(s) THEN 0
    ELSE IF s[i] \in C THEN i ELSE IndexFrom(s, i + 1, C)

\* reParen, matched at p: \s*[(\[]\s*(?:note|disclaimer|...)[^)\]]*[)\]]\s*
\* The end of the match, 0 if there is none.
ParenMatchEnd(s, p) ==
    LET a == SkipSpaces(s, p)
        b == SkipSpaces(s, a + 1)
        c == IndexFrom(s, b + 1, {")"})
    IN  IF a <= Len(s) /\ s[a] = "(" /\ b <= Len(s) /\ s[b] \in {"N", "M"} /\ c > 0
          THEN SkipSpaces(s, c + 1) - 1
          ELSE 0

\* reSentence, matched at p: (?:^|[.!?]\s+)(?:note|disclaimer)\s*:\s*[^.!?]*[.!?]
\* "^" is the start of the text, not of a line, and [^.!?]* runs over line ends.
SentenceMatchEnd(s, p) ==
    LET k == IF p = 1 /\ s[1] # "." THEN 1
             ELSE IF s[p] = "." /\ p < Len(s) /\ IsSpace(s[p + 1])
                    THEN SkipSpaces(s, p + 1)
                    ELSE 0
        c == IF k > 0 THEN SkipSpaces(s, k + 1) ELSE 0
    IN  IF k > 0 /\ k <= Len(s) /\ s[k] = "N" /\ c <= Len(s) /\ s[c] = ":"
          THEN IndexFrom(s, c + 1, {"."})
          ELSE 0

\* rePhrase, matched at p: (?:^|\s)(?:this translation is ...)[^.!?\n]*[.!?]
PhraseMatchEnd(s, p) ==
    LET k == IF p = 1 /\ ~IsSpace(s[1]) THEN 1
             ELSE IF IsSpace(s[p]) THEN p + 1 ELSE 0
        e == IF k > 0 THEN IndexFrom(s, k + 1, {".", "\n"}) ELSE 0
    IN  IF k > 0 /\ k <= Len(s) /\ s[k] = "M" /\ e > 0 /\ s[e] = "."
          THEN e
          ELSE 0

\* re.ReplaceAllString(s, " ") for the three expressions, from position p on
RECURSIVE ReplaceParen(_, _)
ReplaceParen(s, p) ==
    IF p > Len(s) THEN <<>>
    ELSE LET e == ParenMatchEnd(s, p)
         IN  IF e > 0 THEN <<" ">> \o ReplaceParen(s, e + 1)
             ELSE <<s[p]>> \o ReplaceParen(s, p + 1)

RECURSIVE ReplaceSentence(_, _)
ReplaceSentence(s, p) ==
    IF p > Len(s) THEN <<>>
    ELSE LET e == SentenceMatchEnd(s, p)
         IN  IF e > 0 THEN <<" ">> \o ReplaceSentence(s, e + 1)
             ELSE <<s[p]>> \o ReplaceSentence(s, p + 1)

RECURSIVE ReplacePhrase(_, _)
ReplacePhrase(s, p) ==
    IF p > Len(s) THEN <<>>
    ELSE LET e == PhraseMatchEnd(s, p)
         IN  IF e > 0 THEN <<" ">> \o ReplacePhrase(s, e + 1)
             ELSE <<s[p]>> \o ReplacePhrase(s, p + 1)

\* regexp \s{2,} replaced by " ": a run of two or more white-space
\* characters, line ends included, becomes one blank
RECURSIVE CollapseSpaces(_)
CollapseSpaces(s) ==
    IF s = <<>> THEN <<>>
    ELSE IF IsSpace(s[1])
      THEN LET e == SkipSpaces(s, 1)
           IN  (IF e > 2 THEN <<" ">> ELSE <<s[1]>>) \o CollapseSpaces(SubSeq(s, e, Len(s)))
      ELSE <<s[1]>> \o CollapseSpaces(Tail(s))

\* translate.removeInlineDisclaimers
removeInlineDisclaimers(s) ==
    IF TrimSpace(s) = <<>> THEN s
    ELSE CollapseSpaces(TrimSpace(
             ReplacePhrase(ReplaceSentence(ReplaceParen(s, 1), 1), 1)))

\* strings.Split(s, "\n")
RECURSIVE SplitLines(_)
SplitLines(s) ==
    LET e == IndexFrom(s, 1, {"\n"})
    IN  IF e = 0 THEN <<s>>
        ELSE <<SubSeq(s, 1, e - 1)>> \o SplitLines(SubSeq(s, e + 1, Len(s)))

\* patStart.MatchString(l): ^\s*[(\[]?\s*(note|disclaimer)\b
LineStartsWithDisclaimer(l) ==
    LET a == SkipSpaces(l, 1)
        b == IF a <= Len(l) /\ l[a] = "(" THEN SkipSpaces(l, a + 1) ELSE a
    IN  /\ b <= Len(l)
        /\ l[b] = "N"
        /\ (b = Len(l) \/ l[b + 1] \notin WordChars)

\* the loop over the lines: a blank line, a line that removeInlineDisclaimers
\* empties and a line that starts with a disclaimer keyword are skipped
RECURSIVE FilterLines(_)
FilterLines(lines) ==
    IF lines = <<>> THEN <<>>
    ELSE LET l == TrimSpace(lines[1])
             l2 == removeInlineDisclaimers(l)
         IN  IF l = <<>> \/ l2 = <<>> \/ LineStartsWithDisclaimer(l2)
               THEN FilterLines(Tail(lines))
               ELSE <<l2>> \o FilterLines(Tail(lines))

\* translate.SanitizeAIText. The alphabet has no "\r", no quote and no
\* backtick, so the normalisation of line ends and strings.Trim(out, "`\"")
\* have nothing to do.
SanitizeAIText(s) ==
    LET s1 == TrimSpace(s)
    IN  IF s1 = <<>> THEN s1
        ELSE TrimSpace(CollapseSpaces(
                 Join(FilterLines(SplitLines(removeInlineDisclaimers(s1))), <<"\n">>)))

\* --- inputs of the sanitation specification ---
SanAlphabet == {"w", "N", "M", ":", ".", " ", "\n", "(", ")"}

\* every text of at most MaxSanLen characters
SanTexts == SeqsUpTo(SanAlphabet, MaxSanLen)

InitSanitize ==
    /\ sanIn \in SanTexts
    /\ sanOut = <<>>
    /\ sanDone = FALSE

\* out := SanitizeAIText(in)
Sanitize ==
    /\ ~sanDone
    /\ sanOut' = SanitizeAIText(sanIn)
    /\ sanDone' = TRUE
    /\ UNCHANGED sanIn
    /\ UNCHANGED sanitizeOthers

NextSanitize == Sanitize

\* ------------------------------------------------------------------------
\* The rule-based summary (news.fallbackSummary)
\* ------------------------------------------------------------------------
\* The content of an item is described by its lengths in bytes: raw is
\* len(content), trim is len(strings.TrimSpace(content)) and sents holds
\* len(strings.TrimSpace(s)) for each s of strings.Split(c, ".").
\* white space only
BlankText == [raw |-> 2, trim |-> 0, sents |-> <<>>]
\* a short description without a full stop
ShortText == [raw |-> 12, trim |-> 12, sents |-> <<12>>]
\* eight sentences of 24 bytes, each followed by a full stop, blanks between
ChoppyText == [raw |-> 207, trim |-> 207, sents |-> <<24, 24, 24, 24, 24, 24, 24, 24, 0>>]
\* three sentences, the second one too short to be picked
ProseText == [raw |-> 250, trim |-> 250, sents |-> <<100, 20, 125, 0>>]
\* exactly 200 bytes: not long enough to replace the description
BriefText == [raw |-> 200, trim |-> 200, sents |-> <<198, 0>>]

\* the length in bytes of the placeholder returned for a blank content
NoContentLen == 25
\* a sentence shorter than this is not picked
MinSentenceLen == 25
\* the longest content returned whole when no sentence is picked
MaxPlainLen == 160

RECURSIVE SumSeq(_)
SumSeq(s) == IF s = <<>> THEN 0 ELSE s[1] + SumSeq(Tail(s))

\* a summary that is empty when the content is blank
fallbackSummary_NoPlaceholder(content) == content.trim

\* fallbackSummary(content), as the length of the string it returns
fallbackSummary(content) ==
    LET c == content.trim
        long == SelectSeq(content.sents, LAMBDA n : n >= MinSentenceLen)
        picked == IF Len(long) >= 2 THEN SubSeq(long, 1, 2) ELSE long
    IN  IF c = 0 THEN NoContentLen
        ELSE IF picked = <<>>
               THEN IF c > MaxPlainLen THEN MaxPlainLen + 3 ELSE c
               ELSE SumSeq(picked) + 2 * (Len(picked) - 1) + 1

\* ------------------------------------------------------------------------
\* The fallback providers of a summary (translate.SummarizeText)
\* ------------------------------------------------------------------------
\* the providers in the order SummarizeText calls them
Providers == <<"Groq", "Cohere", "Mistral">>

\* what a provider can answer: an error, a blank text, a text that is a
\* disclaimer and nothing else, a summary, a summary after a disclaimer
ProviderAnswers ==
    {[err |-> TRUE, s |-> <<>>],
     [err |-> FALSE, s |-> <<" ">>],
     [err |-> FALSE, s |-> <<"N", ":", "w", ".">>],
     [err |-> FALSE, s |-> <<"w", ".">>],
     [err |-> FALSE, s |-> <<"(", "N", ")", "w", "w">>]}

\* an answer is taken whenever the provider reports no error
AnswerAccepted_NoBlankCheck(a) == ~a.err

\* err == nil && strings.TrimSpace(s) != ""
AnswerAccepted(a) == ~a.err /\ TrimSpace(a.s) # <<>>

\* the three calls of SummarizeText from provider k on; calls are the
\* providers called
RECURSIVE SummarizeFrom(_, _)
SummarizeFrom(k, answers) ==
    IF k > Len(Providers)
      THEN [s |-> <<>>, err |-> TRUE, calls |-> Providers]
      ELSE IF AnswerAccepted(answers[Providers[k]])
             THEN [s |-> SanitizeAIText(answers[Providers[k]].s), err |-> FALSE,
                   calls |-> SubSeq(Providers, 1, k)]
             ELSE SummarizeFrom(k + 1, answers)

\* translate.SummarizeText(text, lang), given what each provider answers
SummarizeText(text, answers) ==
    IF text.trim = 0
      THEN [s |-> <<>>, err |-> FALSE, calls |-> <<>>]
      ELSE SummarizeFrom(1, answers)

\* n.SummaryDanish / n.SummaryUkrainian after
\*   if sum, err := translate.SummarizeText(...); err == nil &&
\*      strings.TrimSpace(sum) != "" { field = sum } else { field = fallbackSummary(n.Content) }
\* as the origin of the text and its length
SummaryField(ret, content) ==
    IF ~ret.err /\ TrimSpace(ret.s) # <<>>
      THEN [from |-> "SummarizeText", len |-> Len(ret.s)]
      ELSE [from |-> "fallbackSummary", len |-> fallbackSummary(content)]

\* --- one call of SummarizeText and the assignment of the field ---
InitSummarize ==
    /\ sumText \in {BlankText, ShortText, ChoppyText, ProseText}
    /\ sumAnswers \in [{"Groq", "Cohere", "Mistral"} -> ProviderAnswers]
    /\ sumPc = "start"
    /\ sumCalls = <<>>
    /\ sumRet = [s |-> <<>>, err |-> FALSE]
    /\ sumField = [from |-> "unset", len |-> 0]

\* if strings.TrimSpace(text) == "" { return "", nil }
SummarizeBegin ==
    /\ sumPc = "start"
    /\ sumPc' = IF sumText.trim = 0 THEN "returned" ELSE "Groq"
    /\ UNCHANGED <<sumText, sumAnswers, sumCalls, sumRet, sumField>>
    /\ UNCHANGED summarizeOthers

\* one of the three if-blocks: call the provider; return its sanitized
\* answer if it is accepted, go on to the block after it otherwise
TryProvider(p, after) ==
    /\ sumPc = p
    /\ sumCalls' = Append(sumCalls, p)
    /\ IF AnswerAccepted(sumAnswers[p])
         THEN /\ sumRet' = [s |-> SanitizeAIText(sumAnswers[p].s), err |-> FALSE]
              /\ sumPc' = "returned"
         ELSE /\ sumRet' = sumRet
              /\ sumPc' = after
    /\ UNCHANGED <<sumText, sumAnswers, sumField>>
    /\ UNCHANGED summarizeOthers

SummarizeWithGroq == TryProvider("Groq", "Cohere")

SummarizeWithCohere == TryProvider("Cohere", "Mistral")

SummarizeWithMistral == TryProvider("Mistral", "failed")

\* return "", fmt.Errorf("all summarizers failed")
SummarizeFailed ==
    /\ sumPc = "failed"
    /\ sumRet' = [s |-> <<>>, err |-> TRUE]
    /\ sumPc' = "returned"
    /\ UNCHANGED <<sumText, sumAnswers, sumCalls, sumField>>
    /\ UNCHANGED summarizeOthers

\* the caller in the Enricher loop assigns the summary field
AssignSummary ==
    /\ sumPc = "returned"
    /\ sumField' = SummaryField(sumRet, sumText)
    /\ sumPc' = "assigned"
    /\ UNCHANGED <<sumText, sumAnswers, sumCalls, sumRet>>
    /\ UNCHANGED summarizeOthers

NextSummarize ==
    \/ SummarizeBegin
    \/ SummarizeWithGroq
    \/ SummarizeWithCohere
    \/ SummarizeWithMistral
    \/ SummarizeFailed
    \/ AssignSummary

\* ------------------------------------------------------------------------
\* The Enricher loop of FilterAndTranslateWithOptions
\* ------------------------------------------------------------------------

\* a budget check that lets one more request through
BudgetExceeded_Late(maxGeminiRequests, requests) ==
    maxGeminiRequests > 0 /\ requests > maxGeminiRequests

\* opts.MaxGeminiRequests > 0 && geminiRequests >= opts.MaxGeminiRequests
BudgetExceeded(maxGeminiRequests, requests) ==
    maxGeminiRequests > 0 /\ requests >= maxGeminiRequests

\* a counter that counts the successful primary calls only
CountGeminiRequest_OnSuccess(requests, failed) == IF failed THEN requests ELSE requests + 1

\* geminiRequests++ after the primary call, whether it failed or not
CountGeminiRequest(requests, failed) == requests + 1

\* fa, ok := fullArticles[n.Link]: no article for the link, or an article
\* with this content
ScrapedArticles ==
    {[ok |-> FALSE, content |-> BlankText],
     [ok |-> TRUE, content |-> BriefText],
     [ok |-> TRUE, content |-> ProseText]}

\* n.Content of a candidate: the description of the feed item
Descriptions == {BlankText, ShortText}

\* where n.Content comes from after the loop looked at fullArticles[n.Link]
ContentOf_AtLeast200Chars(fa) ==
    IF fa.ok /\ fa.content.chars >= 200 THEN "article" ELSE "description"

ContentOf(fa) == IF fa.ok /\ fa.content.raw > 200 THEN "article" ELSE "description"

\* n.Content after the loop looked at fullArticles[n.Link]
ContentText(fa, description) ==
    IF ContentOf(fa) = "article" THEN fa.content ELSE description

\* what the primary provider can answer: GenerateContent fails or gives no
\* candidate (failed), or a response in which parseGeminiResponse finds
\* texts of these lengths for the three fields
GeminiResponses ==
    {[failed |-> TRUE, summary |-> 0, danish |-> 0, ukrainian |-> 0],
     [failed |-> FALSE, summary |-> 60, danish |-> 70, ukrainian |-> 80],
     [failed |-> FALSE, summary |-> 60, danish |-> 0, ukrainian |-> 80],
     [failed |-> FALSE, summary |-> 60, danish |-> 70, ukrainian |-> 0]}

\* aiClient.TranslateAndSummarizeNews: an error when the call fails and
\* when parseGeminiResponse misses one of the three fields
TranslateAndSummarizeNews(resp) ==
    IF resp.failed \/ resp.summary = 0 \/ resp.danish = 0 \/ resp.ukrainian = 0
      THEN [err |-> TRUE, Summary |-> 0, Danish |-> 0, Ukrainian |-> 0]
      ELSE [err |-> FALSE, Summary |-> resp.summary, Danish |-> resp.danish,
            Ukrainian |-> resp.ukrainian]

\* what SummarizeText returns for each content, over all provider answers
SummarizeResults ==
    [content \in {BlankText, ShortText, ChoppyText, ProseText, BriefText} |->
        {[s |-> r.s, err |-> r.err] :
            r \in {SummarizeText(content, a) :
                      a \in [{"Groq", "Cohere", "Mistral"} -> ProviderAnswers]}}]

\* what a summary field of an item with this content can become when it is
\* taken from the fallback providers
SummaryFieldsByContent ==
    [content \in DOMAIN SummarizeResults |->
        {SummaryField(ret, content) : ret \in SummarizeResults[content]}]

SummaryFields(content) == SummaryFieldsByContent[content]

\* the fallback providers are not asked when the primary provider answered
NotAsked == {[from |-> "gemini", len |-> 0]}

\* an error of the primary provider ends the run
ItemError_Propagate(err) == IF err THEN "gemini failed" ELSE "nil"

\* the loop body has no return: an error of the primary provider is logged
\* and the item goes on with the fallback providers
ItemError(err) == "nil"

InitEnrich ==
    /\ aiClientSet \in BOOLEAN
    /\ optsMaxGeminiRequests \in 0..MaxBudget
    /\ newsLimit \in 0..MaxNews
    /\ loopI = 0
    /\ geminiRequests = 0
    /\ res = <<>>
    /\ returned = FALSE
    /\ enrichErr = "nil"

\* if aiClient == nil { return nil, fmt.Errorf("gemini client not initialized...") }
ClientNotInitialized ==
    /\ ~returned
    /\ ~aiClientSet
    /\ returned' = TRUE
    /\ enrichErr' = "gemini client not initialized"
    /\ UNCHANGED <<aiClientSet, optsMaxGeminiRequests, newsLimit, loopI, geminiRequests, res>>
    /\ UNCHANGED enrichOthers

\* One turn of the loop: the content of the item, then either the fallback
\* providers (budget exceeded), or the primary call and, if it fails, the
\* fallback providers. Each text of the News is recorded by its origin and
\* its length.
ProcessItem ==
    /\ ~returned
    /\ aiClientSet
    /\ loopI < newsLimit
    /\ \E fa \in ScrapedArticles, description \in Descriptions,
          resp \in GeminiResponses, titleOk \in BOOLEAN :
          LET content == ContentText(fa, description)
              skipped == BudgetExceeded(optsMaxGeminiRequests, geminiRequests)
              aiResp == TranslateAndSummarizeNews(resp)
              geminiErr == ~skipped /\ aiResp.err
              free == skipped \/ geminiErr
          IN  \E da, uk \in IF free THEN SummaryFields(content) ELSE NotAsked :
                LET n == [content |-> ContentOf(fa),
                          primary |-> IF skipped THEN "skipped"
                                      ELSE IF geminiErr THEN "failed" ELSE "ok",
                          summary |-> IF free THEN "fallbackSummary" ELSE "gemini",
                          summaryDanish |-> IF ~free THEN "gemini" ELSE da.from,
                          summaryUkrainian |-> IF ~free THEN "gemini" ELSE uk.from,
                          titleUkrainian |-> IF titleOk THEN "TranslateText" ELSE "untranslated",
                          lenSummary |-> IF free THEN fallbackSummary(content)
                                         ELSE aiResp.Summary,
                          lenSummaryDanish |-> IF free THEN da.len ELSE aiResp.Danish,
                          lenSummaryUkrainian |-> IF free THEN uk.len ELSE aiResp.Ukrainian]
                    e == ItemError(geminiErr)
                IN  IF e # "nil"
                      THEN /\ returned' = TRUE
                           /\ enrichErr' = e
                           /\ UNCHANGED <<res, geminiRequests, loopI>>
                      ELSE /\ res' = Append(res, n)
                           /\ geminiRequests' = IF skipped THEN geminiRequests
                                                ELSE CountGeminiRequest(geminiRequests, geminiErr)
                           /\ loopI' = loopI + 1
                           /\ UNCHANGED <<returned, enrichErr>>
    /\ UNCHANGED <<aiClientSet, optsMaxGeminiRequests, newsLimit>>
    /\ UNCHANGED enrichOthers

\* the loop is over: return res, nil
ReturnNews ==
    /\ ~returned
    /\ aiClientSet
    /\ loopI = newsLimit
    /\ returned' = TRUE
    /\ UNCHANGED <<aiClientSet, optsMaxGeminiRequests, newsLimit, loopI, geminiRequests,
                   res, enrichErr>>
    /\ UNCHANGED enrichOthers

NextEnrich == ClientNotInitialized \/ ProcessItem \/ ReturnNews
\* ------------------------------------------------------------------------
\* The transport (telegram.SendMessage, telegram.SendMessageAllowPreview)
\* ------------------------------------------------------------------------
\* maxRetries := 3
MaxRetries == 3

\* what one POST to the Bot API can give: HTTP 200 (the message is in the
\* chat), another status, or an error of the HTTP client
PostResults == {"200", "500", "neterr"}

\* the answers to the POSTs of one call, by attempt
TgResponses == [1..MaxRetries -> PostResults]

InitTelegram ==
    /\ tgFunc \in {"SendMessage", "SendMessageAllowPreview"}
    /\ tgResponses \in TgResponses
    /\ tgAttempt = 1
    /\ tgDeliveries = 0
    /\ tgRet = "running"

\* SendMessage, one turn of the loop: sendMessageOnce; return nil if it
\* succeeded, wait and try again otherwise
SendMessageAttempt ==
    /\ tgFunc = "SendMessage"
    /\ tgRet = "running"
    /\ tgAttempt <= MaxRetries
    /\ IF tgResponses[tgAttempt] = "200"
         THEN /\ tgDeliveries' = tgDeliveries + 1
              /\ tgRet' = "nil"
              /\ tgAttempt' = tgAttempt
         ELSE /\ tgAttempt' = tgAttempt + 1
              /\ UNCHANGED <<tgDeliveries, tgRet>>
    /\ UNCHANGED <<tgFunc, tgResponses>>
    /\ UNCHANGED telegramOthers

\* SendMessage after the loop: return fmt.Errorf("can't send message after %d tries")
SendMessageGiveUp ==
    /\ tgFunc = "SendMessage"
    /\ tgRet = "running"
    /\ tgAttempt > MaxRetries
    /\ tgRet' = "error"
    /\ UNCHANGED <<tgFunc, tgResponses, tgAttempt, tgDeliveries>>
    /\ UNCHANGED telegramOthers

\* SendMessageAllowPreview, one turn of the loop: the POST; on HTTP 200 the
\* return statement stands inside the function literal of lines 93-104, so
\* it leaves that literal only and the loop goes on with the next attempt
SendMessageAllowPreviewAttempt ==
    /\ tgFunc = "SendMessageAllowPreview"
    /\ tgRet = "running"
    /\ tgAttempt <= MaxRetries
    /\ tgDeliveries' = IF tgResponses[tgAttempt] = "200"
                         THEN tgDeliveries + 1 ELSE tgDeliveries
    /\ tgAttempt' = tgAttempt + 1
    /\ UNCHANGED <<tgFunc, tgResponses, tgRet>>
    /\ UNCHANGED telegramOthers

\* SendMessageAllowPreview after the loop:
\* return fmt.Errorf("can't send message with preview after %d tries")
SendMessageAllowPreviewGiveUp ==
    /\ tgFunc = "SendMessageAllowPreview"
    /\ tgRet = "running"
    /\ tgAttempt > MaxRetries
    /\ tgRet' = "error"
    /\ UNCHANGED <<tgFunc, tgResponses, tgAttempt, tgDeliveries>>
    /\ UNCHANGED telegramOthers

NextTelegram ==
    \/ SendMessageAttempt
    \/ SendMessageGiveUp
    \/ SendMessageAllowPreviewAttempt
    \/ SendMessageAllowPreviewGiveUp

\* ------------------------------------------------------------------------
\* The sending phase of app.Run (sendSingleNews, sendMultipleNews)
\* ------------------------------------------------------------------------
\* telegram.SendMessage(token, chatID, msg) from this attempt on, given the
\* answers of the Bot API: "nil" at the first HTTP 200, "error" after
\* MaxRetries failed attempts
RECURSIVE SendMessageFrom(_, _)
SendMessageFrom(attempt, responses) ==
    IF attempt > MaxRetries THEN "error"
    ELSE IF responses[attempt] = "200" THEN "nil"
    ELSE SendMessageFrom(attempt + 1, responses)

SendMessage(responses) == SendMessageFrom(1, responses)

\* the news formatNewsMessage(newsList, max) puts into the message: the
\* first max of the list (all of them are of category ukraine or denmark)
MessageNews(n, max) == 1..(IF n < max THEN n ELSE max)

InitApp ==
    /\ appNews \in 0..MaxNews
    /\ appMode \in {"single", "multiple"}
    /\ appLong \in BOOLEAN
    /\ appResponses \in TgResponses
    /\ appPc = "run"
    /\ appMsg = {}
    /\ appDelivered = {}
    /\ appSendErr = FALSE
    /\ appExit = "running"

\* Run after FilterAndTranslate: nothing to send, or the mode of BOT_MODE
RunDispatch ==
    /\ appPc = "run"
    /\ IF appNews = 0
         THEN appPc' = "done" /\ appExit' = "returned"
         ELSE /\ appPc' = IF appMode = "single" THEN "sendSingleNews" ELSE "sendMultipleNews"
              /\ appExit' = appExit
    /\ UNCHANGED <<appNews, appMode, appLong, appResponses, appMsg, appDelivered, appSendErr>>
    /\ UNCHANGED appOthers

\* err := telegram.SendMessage(token, chatID, msg)
\* if err != nil { log.Fatalf(...) }: log.Fatalf ends the process
SendAndCheck(msg) ==
    LET err == SendMessage(appResponses)
    IN  /\ appMsg' = msg
        /\ appPc' = "done"
        /\ IF err = "nil"
             THEN /\ appDelivered' = msg
                  /\ appSendErr' = FALSE
                  /\ appExit' = "returned"
             ELSE /\ appDelivered' = appDelivered
                  /\ appSendErr' = TRUE
                  /\ appExit' = "fatal"

\* sendSingleNews: the message holds newsList[0]
SendSingleNews ==
    /\ appPc = "sendSingleNews"
    /\ SendAndCheck({1})
    /\ UNCHANGED <<appNews, appMode, appLong, appResponses>>
    /\ UNCHANGED appOthers

\* sendMultipleNews: one message with the first two news, with the first
\* one only when the message is longer than 4000 bytes
SendMultipleNews ==
    /\ appPc = "sendMultipleNews"
    /\ SendAndCheck(IF appLong THEN MessageNews(appNews, 1) ELSE MessageNews(appNews, 2))
    /\ UNCHANGED <<appNews, appMode, appLong, appResponses>>
    /\ UNCHANGED appOthers

NextApp == RunDispatch \/ SendSingleNews \/ SendMultipleNews

\* ------------------------------------------------------------------------
\* The rate limiter (ratelimit.AIRateLimiter)
\* ------------------------------------------------------------------------
\* the goroutines that call the limiter
Goroutines == {"g1", "g2"}

\* the providers of the model; Cohere and Mistral have the same code as Groq
RlProviders == {"Gemini", "Groq"}

\* the limits the limiter is built with: maxGemini (not positive: no limit
\* of its own), maxGroq, maxTotal
RlMax == [Gemini |-> 0, Groq |-> 1]

\* the public operations: CanUse<p>, Use<p> and PrintStats
RlOps == [kind : {"CanUse", "Use"}, provider : RlProviders]
         \cup {[kind |-> "PrintStats", provider |-> "none"]}

InitLimiter ==
    /\ rlNow = 0
    /\ rlResetTime = ResetPeriod
    /\ rlCount = [p \in RlProviders |-> 0]
    /\ rlTotal = 0
    /\ rlMu = "free"
    /\ rlStack = [g \in Goroutines |-> <<>>]
    /\ rlPc = [g \in Goroutines |-> "idle"]
    /\ rlResult = [g \in Goroutines |-> "none"]

\* time passes
RlTick ==
    /\ rlNow < MaxNow
    /\ rlNow' = rlNow + 1
    /\ UNCHANGED <<rlResetTime, rlCount, rlTotal, rlMu, rlStack, rlPc, rlResult>>
    /\ UNCHANGED limiterOthers

\* goroutine g calls a public operation and arrives at its rl.mu.Lock();
\* PrintStats starts with stats := rl.GetStats()
RlCall(g, op) ==
    /\ rlPc[g] = "idle"
    /\ rlStack' = [rlStack EXCEPT ![g] = IF op.kind = "PrintStats"
                                           THEN <<op, [kind |-> "GetStats", provider |-> "none"]>>
                                           ELSE <<op>>]
    /\ rlPc' = [rlPc EXCEPT ![g] = "lock"]
    /\ rlResult' = [rlResult EXCEPT ![g] = "none"]
    /\ UNCHANGED <<rlNow, rlResetTime, rlCount, rlTotal, rlMu>>
    /\ UNCHANGED limiterOthers

\* rl.mu.Lock() returns: sync.Mutex is not reentrant, the call waits as
\* long as the mutex is held, by whichever goroutine
RlLock(g) ==
    /\ rlPc[g] = "lock"
    /\ rlMu = "free"
    /\ rlMu' = g
    /\ rlPc' = [rlPc EXCEPT ![g] = "locked"]
    /\ UNCHANGED <<rlNow, rlResetTime, rlCount, rlTotal, rlStack, rlResult>>
    /\ UNCHANGED limiterOthers

\* rl.checkReset() in CanUse<p> / Use<p>, called with the mutex held: when
\* the reset time has passed it calls rl.PrintStats(), which calls
\* rl.GetStats(), which starts with rl.mu.Lock()
RlCheckReset(g) ==
    /\ rlPc[g] = "locked"
    /\ Len(rlStack[g]) = 1
    /\ rlStack[g][1].kind \in {"CanUse", "Use"}
    /\ IF rlNow > rlResetTime
         THEN /\ rlStack' = [rlStack EXCEPT ![g] =
                                <<rlStack[g][1], [kind |-> "checkReset", provider |-> "none"],
                                  [kind |-> "GetStats", provider |-> "none"]>>]
              /\ rlPc' = [rlPc EXCEPT ![g] = "lock"]
         ELSE /\ rlStack' = rlStack
              /\ rlPc' = [rlPc EXCEPT ![g] = "body"]
    /\ UNCHANGED <<rlNow, rlResetTime, rlCount, rlTotal, rlMu, rlResult>>
    /\ UNCHANGED limiterOthers

\* GetStats returns the map and its deferred rl.mu.Unlock() runs. Called by
\* PrintStats, the operation is over; called by checkReset, the counters are
\* reset and the next reset is scheduled, then the operation goes on.
RlGetStatsReturn(g) ==
    /\ rlPc[g] = "locked"
    /\ Len(rlStack[g]) > 1
    /\ rlStack[g][Len(rlStack[g])].kind = "GetStats"
    /\ rlMu' = "free"
    /\ IF rlStack[g][1].kind = "PrintStats"
         THEN /\ rlStack' = [rlStack EXCEPT ![g] = <<>>]
              /\ rlPc' = [rlPc EXCEPT ![g] = "idle"]
              /\ rlResult' = [rlResult EXCEPT ![g] = "returned"]
              /\ UNCHANGED <<rlCount, rlTotal, rlResetTime>>
         ELSE /\ rlStack' = [rlStack EXCEPT ![g] = <<rlStack[g][1]>>]
              /\ rlPc' = [rlPc EXCEPT ![g] = "body"]
              /\ rlCount' = [p \in RlProviders |-> 0]
              /\ rlTotal' = 0
              /\ rlResetTime' = rlNow + ResetPeriod
              /\ rlResult' = rlResult
    /\ UNCHANGED rlNow
    /\ UNCHANGED limiterOthers

RlOver_ProviderOnly(p) == RlMax[p] > 0 /\ rlCount[p] >= RlMax[p]

\* the two tests of Use<p> that end in an error (CanUse<p>: in false)
RlOver(p) ==
    \/ RlMax[p] > 0 /\ rlCount[p] >= RlMax[p]
    \/ MaxTotal > 0 /\ rlTotal >= MaxTotal

\* the rest of CanUse<p> / Use<p>: the limits, the counters, the return and
\* the deferred rl.mu.Unlock(), which panics when the mutex is not locked
RlBody(g) ==
    /\ rlPc[g] = "body"
    /\ LET op == rlStack[g][1]
           p == op.provider
           over == RlOver(p)
       IN  /\ IF op.kind = "Use" /\ ~over
                THEN /\ rlCount' = [rlCount EXCEPT ![p] = @ + 1]
                     /\ rlTotal' = rlTotal + 1
                ELSE UNCHANGED <<rlCount, rlTotal>>
           /\ rlResult' = [rlResult EXCEPT ![g] =
                             IF rlMu # g THEN "panic"
                             ELSE IF over THEN "refused" ELSE "returned"]
    /\ rlMu' = "free"
    /\ rlStack' = [rlStack EXCEPT ![g] = <<>>]
    /\ rlPc' = [rlPc EXCEPT ![g] = "idle"]
    /\ UNCHANGED <<rlNow, rlResetTime>>
    /\ UNCHANGED limiterOthers

NextLimiter ==
    \/ RlTick
    \/ \E g \in Goroutines, op \in RlOps : RlCall(g, op)
    \/ \E g \in Goroutines : RlLock(g)
    \/ \E g \in Goroutines : RlCheckReset(g)
    \/ \E g \in Goroutines : RlGetStatsReturn(g)
    \/ \E g \in Goroutines : RlBody(g)

\* ------------------------------------------------------------------------
\* Title similarity (news.shingleSet, news.jaccardSimilarity)
\* ------------------------------------------------------------------------
\* [[:alnum:]]: the ASCII letters and digits
IsAlnum(c) ==
    c \in {"a", "b", "B", "f", "i", "l", "m", "n", "N", "o", "v", "y"}

\* regexp [^[:alnum:]\s]+ replaced by " ": a run of characters that are
\* neither ASCII letters or digits nor white space becomes one blank
RECURSIVE ReplaceNonAlnum(_)
ReplaceNonAlnum(s) ==
    IF s = <<>> THEN <<>>
    ELSE IF IsAlnum(s[1]) \/ IsSpace(s[1]) THEN <<s[1]>> \o ReplaceNonAlnum(Tail(s))
    ELSE IF Len(s) > 1 /\ ~IsAlnum(s[2]) /\ ~IsSpace(s[2]) THEN ReplaceNonAlnum(Tail(s))
    ELSE <<" ">> \o ReplaceNonAlnum(Tail(s))

\* shingleSet(s, k): the k-grams of the words of s, the words themselves
\* when there is no k-gram
shingleSet(s, k) ==
    LET words == Fields(ReplaceNonAlnum(ToLower(s)))
        out == {Join(SubSeq(words, i, i + k - 1), <<" ">>) : i \in 1..(Len(words) - k + 1)}
    IN  IF Len(words) = 0 THEN {}
        ELSE IF out = {} THEN {words[i] : i \in 1..Len(words)}
        ELSE out

\* the share of the shingles of a that b has too
jaccardSimilarity_Containment(a, b, k) ==
    LET sa == shingleSet(a, k)
        sb == shingleSet(b, k)
    IN  IF sa = {} \/ sb = {} THEN [num |-> 0, den |-> 1]
        ELSE [num |-> Cardinality(sa \cap sb), den |-> Cardinality(sa)]

\* jaccardSimilarity(a, b, k), as the fraction float64(inter) / float64(union);
\* 0.0 is the fraction 0 / 1
jaccardSimilarity(a, b, k) ==
    LET sa == shingleSet(a, k)
        sb == shingleSet(b, k)
        inter == Cardinality({sh \in sa : sh \in sb})
        union == Cardinality(sa) + Cardinality(sb) - inter
    IN  IF sa = {} \/ sb = {} THEN [num |-> 0, den |-> 1]
        ELSE IF union = 0 THEN [num |-> 0, den |-> 1]
        ELSE [num |-> inter, den |-> union]

\* --- inputs of the similarity specification ---
\* "o-slash" stands for the one character U+00F8, a letter outside ASCII
JAlphabet == {"a", "B", " ", "o-slash"}

JStrings == SeqsUpTo(JAlphabet, MaxJLen)

InitJaccard ==
    /\ jA \in JStrings
    /\ jB \in JStrings
    /\ jK \in {1, 2}
    /\ jAB = [num |-> 0, den |-> 1]
    /\ jBA = [num |-> 0, den |-> 1]
    /\ jAA = [num |-> 0, den |-> 1]
    /\ jDone = FALSE

\* the similarity of a and b, of b and a, and of a and itself
Compare ==
    /\ ~jDone
    /\ jAB' = jaccardSimilarity(jA, jB, jK)
    /\ jBA' = jaccardSimilarity(jB, jA, jK)
    /\ jAA' = jaccardSimilarity(jA, jA, jK)
    /\ jDone' = TRUE
    /\ UNCHANGED <<jA, jB, jK>>
    /\ UNCHANGED jaccardOthers

NextJaccard == Compare


\* ------------------------------------------------------------------------
\* The filter loop of FilterAndTranslateWithOptions: age, the three in-run
\* dedup sets, the title similarity list and the score
\* ------------------------------------------------------------------------
\* the links of the model: one article of dr.dk with and without a tracking
\* parameter, a second article of dr.dk, and an article of tv2.dk
FeedLinks ==
    {[host |-> "dr.dk", path |-> "a", utm |-> FALSE],
     [host |-> "dr.dk", path |-> "a", utm |-> TRUE],
     [host |-> "dr.dk", path |-> "b", utm |-> FALSE],
     [host |-> "tv2.dk", path |-> "a", utm |-> FALSE]}

\* the titles of the model: "ny lov", "Ny lov!" and the one letter U+00F8
FeedTitles ==
    {<<"n", "y", " ", "l", "o", "v">>,
     <<"N", "y", " ", "l", "o", "v", "!">>,
     <<"o-slash">>}

\* the descriptions of the model: "film" (an excluded keyword) and "lov" (a
\* Denmark keyword)
FeedDescriptions == {<<"f", "i", "l", "m">>, <<"l", "o", "v">>}

\* publication times in minutes since a midnight (UTC): one more than a day
\* before the run, and three around the window boundary at 30 hours
FeedPublished == {300, 1790, 1800, 1810}

\* time.Now() of the run, in the same minutes
RunTime == 1820

\* opts.MaxAge = 24 * time.Hour, in minutes
MaxAge == 1440

\* windowHours = 6, in minutes
WindowMinutes == 360

\* maxWords = 6
MaxWords == 6

FeedItems == [link : FeedLinks, title : FeedTitles,
              description : FeedDescriptions, published : FeedPublished]

\* normalizeURL drops the tracking parameters and the fragment
normalizeURL(link) == <<link.host, link.path>>

\* makeNewsKey: the hash of the lower-cased title and description
makeNewsKey(title, description) == ToLower(title \o description)

\* unicode.IsLetter / unicode.IsNumber on the characters of the model
IsLetterOrNumber(c) == ~IsSpace(c) /\ c # "!"

\* len(w) of a word: the letter U+00F8 takes two bytes
RECURSIVE ByteLen(_)
ByteLen(w) ==
    IF w = <<>> THEN 0
    ELSE (IF w[1] = "o-slash" THEN 2 ELSE 1) + ByteLen(Tail(w))

\* the stop words that the alphabet of the model can spell
StopWords == {<<"i">>, <<"o", "m">>, <<"f", "o", "r">>}

\* the loop over words: at most MaxWords words that are neither stop words
\* nor shorter than three bytes
RECURSIVE SignificantWords(_, _)
SignificantWords(words, significant) ==
    IF words = <<>> \/ Len(significant) >= MaxWords THEN significant
    ELSE IF Head(words) \in StopWords \/ ByteLen(Head(words)) <= 2
        THEN SignificantWords(Tail(words), significant)
    ELSE SignificantWords(Tail(words), Append(significant, Head(words)))

\* normalize of makeSimilarityKey: lower case, every character that is no
\* letter, number or white space becomes a blank, white space is collapsed
normalize(s) ==
    Join(Fields([i \in 1..Len(s) |->
                    IF IsLetterOrNumber(s[i]) \/ IsSpace(s[i])
                      THEN LowerChar(s[i]) ELSE " "]), <<" ">>)

\* the words of the key: the significant words of title and description, or
\* the first words when none is significant
TopWords(item) ==
    LET text == TrimSpace(item.title \o <<" ">> \o item.description)
        words == Fields(normalize(text))
        significant == SignificantWords(words, <<>>)
    IN  IF Len(significant) = 0 /\ Len(words) > 0
          THEN SubSeq(words, 1, IF Len(words) < MaxWords THEN Len(words)
                                ELSE MaxWords)
          ELSE significant

\* t.Truncate(windowHours): the start of the window of the publication time
WindowStart(published) == (published \div WindowMinutes) * WindowMinutes

\* the key without the time window
makeSimilarityKey_NoWindow(item) ==
    <<item.link.host, TopWords(item), 0>>

\* makeSimilarityKey: host | first six significant words | window start
makeSimilarityKey(item) ==
    <<item.link.host, TopWords(item), WindowStart(item.published)>>

\* the threshold 0.55 of isSimilarTitle
SimilarityThreshold == [num |-> 55, den |-> 100]

\* only the very same title text counts as similar
isSimilarTitle_SameText(a, b) == a # <<>> /\ a = b

\* isSimilarTitle: the similarity of the 2-gram shingles reaches the threshold
isSimilarTitle(a, b) ==
    IF a = <<>> \/ b = <<>> THEN FALSE
    ELSE LET score == jaccardSimilarity(a, b, 2)
         IN  score.num * SimilarityThreshold.den
                 >= SimilarityThreshold.num * score.den

\* strings.Contains
Contains(text, k) ==
    \E i \in 1..(Len(text) - Len(k) + 1) : SubSeq(text, i, i + Len(k) - 1) = k

\* regexp \bk\b: k between two characters that are no ASCII word characters
ContainsWord(text, k) ==
    \E i \in 1..(Len(text) - Len(k) + 1) :
        /\ SubSeq(text, i, i + Len(k) - 1) = k
        /\ i = 1 \/ ~IsAlnum(text[i - 1])
        /\ i + Len(k) > Len(text) \/ ~IsAlnum(text[i + Len(k)])

\* containsAny with one keyword: a keyword of up to three bytes has to be a
\* whole word, a longer one can be any part of the text
containsAny(text, k) ==
    IF ByteLen(k) <= 3 THEN ContainsWord(ToLower(text), k)
    ELSE Contains(ToLower(text), k)

\* calculateNewsScore on the texts of the model, which can hold the excluded
\* keyword "film" and the Denmark keyword "lov" and no other keyword: zero
\* with an excluded keyword, 40 with a Denmark keyword, zero without category
calculateNewsScore(item) ==
    LET text == ToLower(item.title \o <<" ">> \o item.description)
    IN  IF containsAny(text, <<"f", "i", "l", "m">>) THEN 0
        ELSE IF containsAny(text, <<"l", "o", "v">>) THEN 40
        ELSE 0

\* time.Since(*item.PublishedParsed) > opts.MaxAge
TooOld(item) == RunTime - item.published > MaxAge

InitDedup ==
    /\ ddItems = <<>>
    /\ ddI = 0
    /\ seenLinks = {}
    /\ seenContent = {}
    /\ seenSimilar = {}
    /\ seenTitles = <<>>
    /\ candidates = <<>>
    /\ ddFate = <<>>

\* what one turn of the loop does with the item: the fate of the item and
\* the sets after the turn
FilterTurn(item, links, content, similar, titles) ==
    LET normalizedLink == normalizeURL(item.link)
        key == makeNewsKey(item.title, item.description)
        similarKey == makeSimilarityKey(item)
        links1 == links \cup {normalizedLink}
        content1 == content \cup {key}
        similar1 == similar \cup {similarKey}
        out(f, l, c, s) == [fate |-> f, links |-> l, content |-> c, similar |-> s]
    IN  IF TooOld(item) THEN out("old", links, content, similar)
        ELSE IF normalizedLink \in links
            THEN out("dupLink", links, content, similar)
        ELSE IF key \in content
            THEN out("dupContent", links1, content, similar)
        ELSE IF similarKey \in similar
            THEN out("dupSimilar", links1, content1, similar)
        ELSE IF \E k \in 1..Len(titles) : isSimilarTitle(item.title, titles[k])
            THEN out("dupTitle", links1, content1, similar1)
        ELSE IF calculateNewsScore(item) = 0
            THEN out("scoreZero", links1, content1, similar1)
        ELSE out("candidate", links1, content1, similar1)

\* one turn of the loop over the feed items, on the next item of the feeds
FilterItem ==
    /\ ddI < MaxItems
    /\ \E item \in FeedItems :
          LET t == FilterTurn(item, seenLinks, seenContent, seenSimilar, seenTitles)
          IN  /\ ddItems' = Append(ddItems, item)
              /\ ddI' = ddI + 1
              /\ seenLinks' = t.links
              /\ seenContent' = t.content
              /\ seenSimilar' = t.similar
              /\ ddFate' = Append(ddFate, t.fate)
              /\ IF t.fate = "candidate"
                    THEN /\ candidates' = Append(candidates, ddI + 1)
                         /\ seenTitles' = Append(seenTitles, item.title)
                    ELSE UNCHANGED <<candidates, seenTitles>>
    /\ UNCHANGED dedupOthers

NextDedup == FilterItem


\* ------------------------------------------------------------------------
\* The Selector: the working pool and selectDiverse
\* ------------------------------------------------------------------------
SourceNames == {"dr", "tv2"}
Categories == {"denmark", "ukraine"}
Scores == {1, 2}
PublishedTimes == {1, 2}

\* the working pool holds PoolFactor times the limit
PoolFactor == 4

\* a sorts before b: higher score, then later publication
SortsBefore(a, b) ==
    IF a.score # b.score THEN a.score > b.score ELSE a.published > b.published

\* no candidate sorts before one that precedes it
IsSorted(s) ==
    \A i, j \in 1..Len(s) : i < j => ~SortsBefore(s[j], s[i])

\* how many items of out come from the source, or fall in the category
srcCount(out, source) == Cardinality({k \in 1..Len(out) : out[k].source = source})

catCount(out, category) ==
    Cardinality({k \in 1..Len(out) : out[k].category = category})

\* the greedy pass skips the candidate c: only the source quota is looked at
GreedySkips_SourceOnly(out, c, perSource, perCategory) ==
    \/ c.link = 0
    \/ perSource > 0 /\ srcCount(out, c.source) >= perSource

\* the greedy pass skips the candidate c: no link, or a quota is used up
GreedySkips(out, c, perSource, perCategory) ==
    \/ c.link = 0
    \/ perSource > 0 /\ srcCount(out, c.source) >= perSource
    \/ perCategory > 0 /\ catCount(out, c.category) >= perCategory

\* the first loop of selectDiverse, from the candidate i on
RECURSIVE GreedyPass(_, _, _, _, _, _)
GreedyPass(cands, i, out, limit, perSource, perCategory) ==
    IF i > Len(cands) \/ Len(out) >= limit THEN out
    ELSE IF GreedySkips(out, cands[i], perSource, perCategory)
        THEN GreedyPass(cands, i + 1, out, limit, perSource, perCategory)
    ELSE GreedyPass(cands, i + 1, Append(out, cands[i]), limit, perSource,
                    perCategory)

\* the second loop: fill up with the candidates whose link is not in out yet
RECURSIVE FillPass(_, _, _, _)
FillPass(cands, i, out, limit) ==
    IF i > Len(cands) \/ Len(out) >= limit THEN out
    ELSE IF \E k \in 1..Len(out) : out[k].link = cands[i].link
        THEN FillPass(cands, i + 1, out, limit)
    ELSE FillPass(cands, i + 1, Append(out, cands[i]), limit)

\* sort.SliceStable: insert c behind the last item that does not sort after it
RECURSIVE InsertSorted(_, _)
InsertSorted(s, c) ==
    IF s = <<>> THEN <<c>>
    ELSE IF SortsBefore(c, s[Len(s)])
        THEN Append(InsertSorted(SubSeq(s, 1, Len(s) - 1), c), s[Len(s)])
    ELSE Append(s, c)

\* no sort at all: the items stay as the two passes appended them
SortStable_NoSort(s) == s

RECURSIVE SortStable(_)
SortStable(s) ==
    IF s = <<>> THEN <<>>
    ELSE InsertSorted(SortStable(SubSeq(s, 1, Len(s) - 1)), s[Len(s)])

selectDiverse(cands, limit, perSource, perCategory) ==
    IF limit <= 0 THEN <<>>
    ELSE LET greedy == GreedyPass(cands, 1, <<>>, limit, perSource, perCategory)
             filled == IF Len(greedy) < limit
                          THEN FillPass(cands, 1, greedy, limit)
                          ELSE greedy
         IN  SortStable(filled)

\* the working pool of FilterAndTranslateWithOptions
WorkingPool(cands, limit) ==
    LET pool == IF limit * PoolFactor > Len(cands) THEN Len(cands)
                ELSE limit * PoolFactor
    IN  SubSeq(cands, 1, pool)

\* the sorted candidate lists: every link is different, as the filter loop
\* lets one item through for a normalized link; 0 stands for the empty link
CandidateTraits ==
    [source : SourceNames, category : Categories, score : Scores,
     published : PublishedTimes]

\* the candidate list of the traits t, where the e-th item has no link
WithLinks(t, e) ==
    [i \in 1..Len(t) |->
        [link |-> IF i = e THEN 0 ELSE i, source |-> t[i].source,
         category |-> t[i].category, score |-> t[i].score,
         published |-> t[i].published]]

SortedCandidates ==
    UNION {
      {WithLinks(t, e) : t \in {s \in [1..n -> CandidateTraits] : IsSorted(s)},
                         e \in 0..n} : n \in 0..MaxCandidates}

InitSelect ==
    /\ selCandidates \in SortedCandidates
    /\ selLimit \in 1..MaxLimit
    /\ selPerSource \in 1..MaxCap
    /\ selPerCategory \in 1..MaxCap
    /\ selOut = <<>>
    /\ selDone = FALSE

\* no candidate: the run returns before the selection
NoCandidates ==
    /\ ~selDone
    /\ Len(selCandidates) = 0
    /\ selDone' = TRUE
    /\ UNCHANGED <<selCandidates, selLimit, selPerSource, selPerCategory, selOut>>
    /\ UNCHANGED selectOthers

SelectDiverse ==
    /\ ~selDone
    /\ Len(selCandidates) > 0
    /\ selOut' = selectDiverse(WorkingPool(selCandidates, selLimit), selLimit,
                               selPerSource, selPerCategory)
    /\ selDone' = TRUE
    /\ UNCHANGED <<selCandidates, selLimit, selPerSource, selPerCategory>>
    /\ UNCHANGED selectOthers

NextSelect == NoCandidates \/ SelectDiverse


\* ------------------------------------------------------------------------
\* retry.WithRetry
\* ------------------------------------------------------------------------
\* what one invocation of fn returns
FnResults == {"nil", "err"}

InitRetry ==
    /\ rtMaxAttempts \in 0..MaxRetryAttempts
    /\ rtBackoff \in BOOLEAN
    /\ rtAttempt = 1
    /\ rtPc = "loop"
    /\ rtResults = <<>>
    /\ rtLastErr = "nil"
    /\ rtWaited = 0
    /\ rtCtxDone = FALSE
    /\ rtRet = "running"

\* the context is cancelled by its owner
CtxCancel ==
    /\ ~rtCtxDone
    /\ rtRet = "running"
    /\ rtCtxDone' = TRUE
    /\ UNCHANGED <<rtMaxAttempts, rtBackoff, rtAttempt, rtPc, rtResults, rtLastErr,
                   rtWaited, rtRet>>
    /\ UNCHANGED retryOthers

\* attempt <= config.MaxAttempts holds: fn is invoked; nil is returned if fn
\* succeeded, the wrapped error if this was the last attempt, and otherwise
\* the call waits
RetryAttempt ==
    /\ rtRet = "running"
    /\ rtPc = "loop"
    /\ rtAttempt <= rtMaxAttempts
    /\ \E err \in FnResults :
          /\ rtResults' = Append(rtResults, err)
          /\ IF err # "nil"
                THEN /\ rtLastErr' = err
                     /\ IF rtAttempt = rtMaxAttempts
                           THEN rtRet' = "failed after attempts" /\ rtPc' = "done"
                           ELSE rtRet' = rtRet /\ rtPc' = "select"
                ELSE /\ rtRet' = "nil"
                     /\ rtPc' = "done"
                     /\ UNCHANGED rtLastErr
    /\ UNCHANGED <<rtMaxAttempts, rtBackoff, rtAttempt, rtWaited, rtCtxDone>>
    /\ UNCHANGED retryOthers

\* case <-time.After(delay): continue; the delay is counted in units of
\* config.Delay
RetryDelayOver ==
    /\ rtRet = "running"
    /\ rtPc = "select"
    /\ rtWaited' = rtWaited + (IF rtBackoff THEN rtAttempt ELSE 1)
    /\ rtAttempt' = rtAttempt + 1
    /\ rtPc' = "loop"
    /\ UNCHANGED <<rtMaxAttempts, rtBackoff, rtResults, rtLastErr, rtCtxDone, rtRet>>
    /\ UNCHANGED retryOthers

\* case <-ctx.Done(): return ctx.Err()
RetryCancelled ==
    /\ rtRet = "running"
    /\ rtPc = "select"
    /\ rtCtxDone
    /\ rtRet' = "ctx.Err()"
    /\ rtPc' = "done"
    /\ UNCHANGED <<rtMaxAttempts, rtBackoff, rtAttempt, rtResults, rtLastErr,
                   rtWaited, rtCtxDone>>
    /\ UNCHANGED retryOthers

\* attempt <= config.MaxAttempts fails: return lastErr
RetryLoopOver ==
    /\ rtRet = "running"
    /\ rtPc = "loop"
    /\ rtAttempt > rtMaxAttempts
    /\ rtRet' = rtLastErr
    /\ rtPc' = "done"
    /\ UNCHANGED <<rtMaxAttempts, rtBackoff, rtAttempt, rtResults, rtLastErr,
                   rtWaited, rtCtxDone>>
    /\ UNCHANGED retryOthers

NextRetry ==
    CtxCancel \/ RetryAttempt \/ RetryDelayOver \/ RetryCancelled \/ RetryLoopOver


\* ------------------------------------------------------------------------
\* The scraper run (scraper.ExtractArticlesInBackground) and the content of
\* the selected items
\* ------------------------------------------------------------------------
\* if i >= 5 { break }
ScrapeHardLimit == 5

\* if len(article.Content) > 100
MinArticleLen == 100

\* cfg.ScrapeMaxArticles: the default and a smaller configured value
ScrapeMaxConfigs == {3, 10}

\* cfg.ScrapeConcurrency: the default
ScrapeConcurrencyConfigs == {8}

\* what ExtractFullArticle can give for a URL: an error, or a content of so
\* many bytes (raw) and characters; the last one holds letters of two bytes
FetchResults ==
    {[ok |-> FALSE, content |-> [raw |-> 0, chars |-> 0]],
     [ok |-> TRUE, content |-> [raw |-> 90, chars |-> 90]],
     [ok |-> TRUE, content |-> [raw |-> 200, chars |-> 200]],
     [ok |-> TRUE, content |-> [raw |-> 201, chars |-> 201]],
     [ok |-> TRUE, content |-> [raw |-> 210, chars |-> 190]]}

\* fullArticles[n.Link] when the map has no entry for the link
NoArticle == [ok |-> FALSE, content |-> [raw |-> 0, chars |-> 0]]

InitScrape ==
    /\ scUrls \in 0..MaxUrls
    /\ scMaxArticles \in ScrapeMaxConfigs
    /\ scConcurrency \in ScrapeConcurrencyConfigs
    /\ scI = 0
    /\ scInFlight = {}
    /\ scAttempted = {}
    /\ scResult = [i \in {} |-> NoArticle]
    /\ scPc = "scrape"
    /\ scContent = <<>>

\* one turn of the loop of ExtractArticlesInBackground begins: the request
\* for the next URL goes out
ScrapeBegin ==
    /\ scPc = "scrape"
    /\ scInFlight = {}
    /\ scI < scUrls
    /\ scI < ScrapeHardLimit
    /\ scInFlight' = {scI + 1}
    /\ scAttempted' = scAttempted \cup {scI + 1}
    /\ UNCHANGED <<scUrls, scMaxArticles, scConcurrency, scI, scResult, scPc, scContent>>
    /\ UNCHANGED scrapeOthers

\* the turn ends: the article enters the result if there is one and its
\* content is longer than 100 bytes
ScrapeEnd ==
    /\ scPc = "scrape"
    /\ scInFlight # {}
    /\ \E article \in FetchResults :
          scResult' =
              IF article.ok /\ article.content.raw > MinArticleLen
                THEN [i \in DOMAIN scResult \cup {scI + 1} |->
                         IF i = scI + 1 THEN article ELSE scResult[i]]
                ELSE scResult
    /\ scInFlight' = {}
    /\ scI' = scI + 1
    /\ UNCHANGED <<scUrls, scMaxArticles, scConcurrency, scAttempted, scPc, scContent>>
    /\ UNCHANGED scrapeOthers

\* the loop is over: return result
ScrapeReturn ==
    /\ scPc = "scrape"
    /\ scInFlight = {}
    /\ scI >= scUrls \/ scI >= ScrapeHardLimit
    /\ scPc' = "content"
    /\ UNCHANGED <<scUrls, scMaxArticles, scConcurrency, scI, scInFlight, scAttempted,
                   scResult, scContent>>
    /\ UNCHANGED scrapeOthers

\* the head of the Enricher loop for the next selected item: n.Content is
\* the article when fullArticles holds a long one for the link
UseContent ==
    /\ scPc = "content"
    /\ Len(scContent) < scUrls
    /\ LET k == Len(scContent) + 1
           fa == IF k \in DOMAIN scResult THEN scResult[k] ELSE NoArticle
       IN  scContent' = Append(scContent, ContentOf(fa))
    /\ UNCHANGED <<scUrls, scMaxArticles, scConcurrency, scI, scInFlight, scAttempted,
                   scResult, scPc>>
    /\ UNCHANGED scrapeOthers

NextScrape == ScrapeBegin \/ ScrapeEnd \/ ScrapeReturn \/ UseContent


\* ------------------------------------------------------------------------
\* The waits of a run and a cancellation of the run: the Enricher loop with
\* its pause after every item, then telegram.SendMessage with its back-off
\* ------------------------------------------------------------------------
\* The run gets no context and no signal handler: the provider calls run
\* under context.Background() and the waits are time.Sleep, so no step below
\* reads cnCancelled.
InitCancel ==
    /\ cnItems \in 1..MaxRunItems
    /\ cnPc = "call"
    /\ cnAttempt = 1
    /\ cnCancelled = FALSE
    /\ cnCallsAfter = 0
    /\ cnWaitsAfter = 0
    /\ cnRet = "running"

\* the run-level cancellation is signalled while the run is under way
CancelRun ==
    /\ cnPc # "done"
    /\ ~cnCancelled
    /\ cnCancelled' = TRUE
    /\ UNCHANGED <<cnItems, cnPc, cnAttempt, cnCallsAfter, cnWaitsAfter, cnRet>>
    /\ UNCHANGED cancelOthers

After(n) == IF cnCancelled THEN n + 1 ELSE n

\* the loop body up to the pause: the provider calls for the next item
EnrichItem ==
    /\ cnPc = "call"
    /\ cnPc' = "pause"
    /\ cnCallsAfter' = After(cnCallsAfter)
    /\ UNCHANGED <<cnItems, cnAttempt, cnCancelled, cnWaitsAfter, cnRet>>
    /\ UNCHANGED cancelOthers

\* time.Sleep(1 * time.Second) has run to its end: the next item, or the
\* loop is over and the message goes out
PauseOver ==
    /\ cnPc = "pause"
    /\ cnItems' = cnItems - 1
    /\ cnPc' = IF cnItems > 1 THEN "call" ELSE "send"
    /\ cnWaitsAfter' = After(cnWaitsAfter)
    /\ UNCHANGED <<cnAttempt, cnCancelled, cnCallsAfter, cnRet>>
    /\ UNCHANGED cancelOthers

\* one turn of the loop of SendMessage: sendMessageOnce, then return, or
\* the back-off before the next attempt, or the final error
SendOnce ==
    /\ cnPc = "send"
    /\ cnCallsAfter' = After(cnCallsAfter)
    /\ \E err \in BOOLEAN :
          IF ~err THEN cnPc' = "done" /\ cnRet' = "nil"
          ELSE IF cnAttempt < MaxRetries THEN cnPc' = "backoff" /\ cnRet' = cnRet
          ELSE cnPc' = "done" /\ cnRet' = "err"
    /\ UNCHANGED <<cnItems, cnAttempt, cnCancelled, cnWaitsAfter>>
    /\ UNCHANGED cancelOthers

\* time.Sleep(waitTime) has run to its end: attempt++
BackoffOver ==
    /\ cnPc = "backoff"
    /\ cnAttempt' = cnAttempt + 1
    /\ cnPc' = "send"
    /\ cnWaitsAfter' = After(cnWaitsAfter)
    /\ UNCHANGED <<cnItems, cnCancelled, cnCallsAfter, cnRet>>
    /\ UNCHANGED cancelOthers

NextCancel == CancelRun \/ EnrichItem \/ PauseOver \/ SendOnce \/ BackoffOver


\* ------------------------------------------------------------------------
\* The image of an item (extractImageURL, scraper.ExtractImageURL)
\* ------------------------------------------------------------------------
\* A URL, by the parts the code looks at: its scheme as written (none for a
\* relative reference), whether it holds "/images/" or "cdn", and its
\* ending as written.
NoURL == [scheme |-> "", marker |-> FALSE, ext |-> "", blank |-> TRUE]

ImageURLs ==
    {[scheme |-> "https:", marker |-> FALSE, ext |-> ".jpg", blank |-> FALSE],
     [scheme |-> "https:", marker |-> TRUE, ext |-> "", blank |-> FALSE],
     [scheme |-> "https:", marker |-> FALSE, ext |-> "", blank |-> FALSE],
     [scheme |-> "https:", marker |-> TRUE, ext |-> ".svg", blank |-> FALSE],
     [scheme |-> "https:", marker |-> FALSE, ext |-> ".SVG", blank |-> FALSE],
     [scheme |-> "", marker |-> TRUE, ext |-> ".PNG", blank |-> FALSE],
     [scheme |-> "data:", marker |-> FALSE, ext |-> "", blank |-> FALSE],
     [scheme |-> "DATA:", marker |-> TRUE, ext |-> "", blank |-> FALSE]}

\* strings.ToLower on the schemes and endings above
LowerPart(s) ==
    CASE s = ".SVG" -> ".svg"
      [] s = ".PNG" -> ".png"
      [] s = "DATA:" -> "data:"
      [] OTHER -> s

ImageEndings == {".jpg", ".jpeg", ".png", ".webp", ".gif"}

isLikelyImage(u) ==
    IF u.blank THEN FALSE
    ELSE IF LowerPart(u.scheme) = "data:" \/ LowerPart(u.ext) = ".svg" THEN FALSE
    ELSE IF LowerPart(u.ext) \in ImageEndings THEN TRUE
    ELSE u.marker

\* resolve: an http(s) URL stays, a reference without scheme is resolved
\* against the page, a URL of another scheme stays as it is
resolve(src) ==
    IF src.blank THEN NoURL
    ELSE IF src.scheme = "" THEN [src EXCEPT !.scheme = "https:"]
    ELSE src

RECURSIVE FirstLikely(_)
FirstLikely(found) ==
    IF found = <<>> THEN NoURL
    ELSE IF isLikelyImage(resolve(Head(found))) THEN resolve(Head(found))
    ELSE FirstLikely(Tail(found))

\* scraper.ExtractImageURL: page.found are the values of og:image,
\* og:image:secure_url, twitter:image, image_src and the first img, those
\* present, in this order
ExtractImageURL(page) ==
    IF ~page.ok THEN [url |-> NoURL, err |-> TRUE]
    ELSE [url |-> FirstLikely(page.found), err |-> FALSE]

\* step 1 of extractImageURL: the enclosures
RECURSIVE FromEnclosures(_)
FromEnclosures(es) ==
    IF es = <<>> THEN NoURL
    ELSE LET e == Head(es)
         IN  IF e.image /\ ~e.url.blank THEN e.url
             ELSE IF ~e.url.blank /\ LowerPart(e.url.ext) \in ImageEndings THEN e.url
             ELSE FromEnclosures(Tail(es))

\* the step that gives the image of the item, and the image
extractImageStep(item) ==
    IF ~FromEnclosures(item.enclosures).blank THEN "enclosure"
    ELSE IF ~item.descriptionImg.blank THEN "description"
    ELSE IF ~item.contentImg.blank THEN "content"
    ELSE IF item.hasLink /\ ~ExtractImageURL(item.page).err
            /\ ~ExtractImageURL(item.page).url.blank THEN "page"
    ELSE "none"

extractImageURL(item) ==
    CASE extractImageStep(item) = "enclosure" -> FromEnclosures(item.enclosures)
      [] extractImageStep(item) = "description" -> item.descriptionImg
      [] extractImageStep(item) = "content" -> item.contentImg
      [] extractImageStep(item) = "page" -> ExtractImageURL(item.page).url
      [] OTHER -> NoURL

\* the feed items: enclosures with a type that is image/... or not, the
\* first <img src> of the description and of the content, the page
Enclosures == [image : BOOLEAN, url : ImageURLs \cup {NoURL}]

ImgSources == {NoURL} \cup
    {u \in ImageURLs : u.scheme # "https:" \/ u.ext \in {".jpg", ".svg"}}

Pages == {[ok |-> FALSE, found |-> <<>>]} \cup
         {[ok |-> TRUE, found |-> f] : f \in SeqsUpTo(ImageURLs, MaxFound)}

InitImage ==
    /\ imItem \in [enclosures : SeqsUpTo(Enclosures, MaxEnclosures),
                   descriptionImg : ImgSources,
                   contentImg : {NoURL, CHOOSE u \in ImageURLs : u.scheme = "data:"},
                   hasLink : BOOLEAN,
                   page : Pages]
    /\ imStep = "start"
    /\ imURL = NoURL

\* ImageURL: extractImageURL(item)
ExtractImage ==
    /\ imStep = "start"
    /\ imStep' = extractImageStep(imItem)
    /\ imURL' = extractImageURL(imItem)
    /\ UNCHANGED imItem
    /\ UNCHANGED imageOthers

NextImage == ExtractImage


\* ------------------------------------------------------------------------
\* The in-memory cache (cache.Cache): Set, Get and cleanup under c.mu
\* ------------------------------------------------------------------------
CacheKeys == {"k1", "k2"}

\* the goroutine of cleanupLoop, started by New
Cleaner == "cleaner"

CacheCallers == Goroutines \cup {Cleaner}

\* the ttl of Set, in ticks of the clock
CacheTTLs == {1}

\* the steps that read c.items and those that change it
MapReads == {"lookup"}

MapWrites == {"delete", "store", "sweep"}

\* time.Now().After(item.ExpiresAt)
Expired(key) == chNow > chItems[key]

\* a change of the map by g that is not ordered with the access of another
\* goroutine to the map: a data race, whose outcome the runtime does not
\* define (it may stop the program with "concurrent map writes")
Racing(g) ==
    /\ chPc[g] \in MapWrites
    /\ \E h \in CacheCallers \ {g} : chPc[h] \in MapReads \cup MapWrites

InitCache ==
    /\ chItems = [k \in {} |-> 0]
    /\ chNow = 0
    /\ chReaders = {}
    /\ chWriter = {}
    /\ chPc = [g \in CacheCallers |-> "idle"]
    /\ chKey = [g \in CacheCallers |-> "k1"]
    /\ chCrashed = FALSE

\* time passes
CacheTick ==
    /\ ~chCrashed
    /\ chNow < MaxClock
    /\ chNow' = chNow + 1
    /\ UNCHANGED <<chItems, chReaders, chWriter, chPc, chKey, chCrashed>>
    /\ UNCHANGED cacheOthers

\* c.mu.Lock() of Set or cleanup returns: no reader and no writer holds c.mu
CacheLock(g) ==
    /\ ~chCrashed
    /\ chPc[g] = "idle"
    /\ chReaders = {} /\ chWriter = {}
    /\ chWriter' = {g}
    /\ IF g = Cleaner
         THEN chPc' = [chPc EXCEPT ![g] = "sweep"] /\ chKey' = chKey
         ELSE \E key \in CacheKeys :
                 /\ chPc' = [chPc EXCEPT ![g] = "store"]
                 /\ chKey' = [chKey EXCEPT ![g] = key]
    /\ UNCHANGED <<chItems, chNow, chReaders, chCrashed>>
    /\ UNCHANGED cacheOthers

\* Set: c.items[key] = CacheItem{...}, then the deferred c.mu.Unlock()
SetStore(g) ==
    /\ ~chCrashed
    /\ chPc[g] = "store"
    /\ \E ttl \in CacheTTLs :
          chItems' = [k \in DOMAIN chItems \cup {chKey[g]} |->
                         IF k = chKey[g] THEN chNow + ttl ELSE chItems[k]]
    /\ chWriter' = chWriter \ {g}
    /\ chPc' = [chPc EXCEPT ![g] = "idle"]
    /\ UNCHANGED <<chNow, chReaders, chKey, chCrashed>>
    /\ UNCHANGED cacheOthers

\* cleanup: the loop that deletes the expired items, then c.mu.Unlock()
CleanupSweep ==
    /\ ~chCrashed
    /\ chPc[Cleaner] = "sweep"
    /\ chItems' = [k \in {j \in DOMAIN chItems : ~Expired(j)} |-> chItems[k]]
    /\ chWriter' = chWriter \ {Cleaner}
    /\ chPc' = [chPc EXCEPT ![Cleaner] = "idle"]
    /\ UNCHANGED <<chNow, chReaders, chKey, chCrashed>>
    /\ UNCHANGED cacheOthers

\* Get: c.mu.RLock() returns: no writer holds c.mu
GetRLock(g) ==
    /\ ~chCrashed
    /\ g # Cleaner
    /\ chPc[g] = "idle"
    /\ chWriter = {}
    /\ chReaders' = chReaders \cup {g}
    /\ \E key \in CacheKeys : chKey' = [chKey EXCEPT ![g] = key]
    /\ chPc' = [chPc EXCEPT ![g] = "lookup"]
    /\ UNCHANGED <<chItems, chNow, chWriter, chCrashed>>
    /\ UNCHANGED cacheOthers

\* Get: item, exists := c.items[key], and the test of the expiry
GetLookup(g) ==
    /\ ~chCrashed
    /\ chPc[g] = "lookup"
    /\ chPc' = [chPc EXCEPT ![g] =
                  IF chKey[g] \in DOMAIN chItems /\ Expired(chKey[g])
                    THEN "delete" ELSE "return"]
    /\ UNCHANGED <<chItems, chNow, chReaders, chWriter, chKey, chCrashed>>
    /\ UNCHANGED cacheOthers

\* Get: delete(c.items, key), with the read lock held
GetDelete(g) ==
    /\ ~chCrashed
    /\ chPc[g] = "delete"
    /\ \/ /\ chItems' = [k \in DOMAIN chItems \ {chKey[g]} |-> chItems[k]]
          /\ chPc' = [chPc EXCEPT ![g] = "return"]
          /\ chCrashed' = chCrashed
       \/ /\ Racing(g)
          /\ chCrashed' = TRUE
          /\ UNCHANGED <<chItems, chPc>>
    /\ UNCHANGED <<chNow, chReaders, chWriter, chKey>>
    /\ UNCHANGED cacheOthers

\* Get: return and the deferred c.mu.RUnlock()
GetReturn(g) ==
    /\ ~chCrashed
    /\ chPc[g] = "return"
    /\ chReaders' = chReaders \ {g}
    /\ chPc' = [chPc EXCEPT ![g] = "idle"]
    /\ UNCHANGED <<chItems, chNow, chWriter, chKey, chCrashed>>
    /\ UNCHANGED cacheOthers

NextCache ==
    \/ CacheTick
    \/ \E g \in CacheCallers : CacheLock(g)
    \/ \E g \in Goroutines : SetStore(g)
    \/ CleanupSweep
    \/ \E g \in Goroutines : GetRLock(g)
    \/ \E g \in Goroutines : GetLookup(g)
    \/ \E g \in Goroutines : GetDelete(g)
    \/ \E g \in Goroutines : GetReturn(g)


\* ------------------------------------------------------------------------
\* Each part of the program at rest, while another part is studied
\* ------------------------------------------------------------------------
\* the hash inputs while another part of the program is studied
IdleHash ==
    /\ hTitle = <<>>
    /\ hLink = <<>>
    /\ hFile = None
    /\ hPg = None
    /\ hVar = None

\* no invocation has started
IdleStore == InitStore

\* the Enricher while another part of the program is studied
IdleEnrich ==
    /\ aiClientSet = TRUE
    /\ enrichErr = "nil"
    /\ optsMaxGeminiRequests = 0
    /\ newsLimit = 0
    /\ loopI = 0
    /\ geminiRequests = 0
    /\ res = <<>>
    /\ returned = TRUE

\* no text is being sanitized
IdleSanitize ==
    /\ sanIn = <<>>
    /\ sanOut = <<>>
    /\ sanDone = TRUE

\* no summary is being made
IdleSummarize ==
    /\ sumText = BlankText
    /\ sumAnswers = [p \in {"Groq", "Cohere", "Mistral"} |-> [err |-> TRUE, s |-> <<>>]]
    /\ sumPc = "assigned"
    /\ sumCalls = <<>>
    /\ sumRet = [s |-> <<>>, err |-> FALSE]
    /\ sumField = [from |-> "unset", len |-> 0]

\* no call of the transport is under way
IdleTelegram ==
    /\ tgFunc = "SendMessage"
    /\ tgResponses = [k \in 1..MaxRetries |-> "neterr"]
    /\ tgAttempt = 1
    /\ tgDeliveries = 0
    /\ tgRet = "nil"

\* Run is not running
IdleApp ==
    /\ appNews = 0
    /\ appMode = "multiple"
    /\ appLong = FALSE
    /\ appResponses = [k \in 1..MaxRetries |-> "neterr"]
    /\ appPc = "done"
    /\ appMsg = {}
    /\ appDelivered = {}
    /\ appSendErr = FALSE
    /\ appExit = "returned"

\* nobody calls the limiter
IdleLimiter ==
    /\ rlNow = 0
    /\ rlResetTime = ResetPeriod
    /\ rlCount = [p \in RlProviders |-> 0]
    /\ rlTotal = 0
    /\ rlMu = "free"
    /\ rlStack = [g \in Goroutines |-> <<>>]
    /\ rlPc = [g \in Goroutines |-> "idle"]
    /\ rlResult = [g \in Goroutines |-> "none"]

\* no similarity is being computed
IdleJaccard ==
    /\ jA = <<>>
    /\ jB = <<>>
    /\ jK = 2
    /\ jAB = [num |-> 0, den |-> 1]
    /\ jBA = [num |-> 0, den |-> 1]
    /\ jAA = [num |-> 0, den |-> 1]
    /\ jDone = TRUE

IdleDedup ==
    /\ ddItems = <<>>
    /\ ddI = 0
    /\ seenLinks = {}
    /\ seenContent = {}
    /\ seenSimilar = {}
    /\ seenTitles = <<>>
    /\ candidates = <<>>
    /\ ddFate = <<>>

IdleSelect ==
    /\ selCandidates = <<>>
    /\ selLimit = 1
    /\ selPerSource = 1
    /\ selPerCategory = 1
    /\ selOut = <<>>
    /\ selDone = TRUE

IdleRetry ==
    /\ rtMaxAttempts = 1
    /\ rtBackoff = FALSE
    /\ rtAttempt = 1
    /\ rtPc = "done"
    /\ rtResults = <<>>
    /\ rtLastErr = "nil"
    /\ rtWaited = 0
    /\ rtCtxDone = FALSE
    /\ rtRet = "nil"

IdleScrape ==
    /\ scUrls = 0
    /\ scMaxArticles = 10
    /\ scConcurrency = 8
    /\ scI = 0
    /\ scInFlight = {}
    /\ scAttempted = {}
    /\ scResult = [i \in {} |-> NoArticle]
    /\ scPc = "content"
    /\ scContent = <<>>

IdleCancel ==
    /\ cnItems = 0
    /\ cnPc = "done"
    /\ cnAttempt = 1
    /\ cnCancelled = FALSE
    /\ cnCallsAfter = 0
    /\ cnWaitsAfter = 0
    /\ cnRet = "nil"

IdleImage ==
    /\ imItem = [enclosures |-> <<>>, descriptionImg |-> NoURL, contentImg |-> NoURL,
                  hasLink |-> FALSE, page |-> [ok |-> FALSE, found |-> <<>>]]
    /\ imStep = "none"
    /\ imURL = NoURL

IdleCache ==
    /\ chItems = [k \in {} |-> 0]
    /\ chNow = 0
    /\ chReaders = {}
    /\ chWriter = {}
    /\ chPc = [g \in CacheCallers |-> "idle"]
    /\ chKey = [g \in CacheCallers |-> "k1"]
    /\ chCrashed = FALSE

\* ------------------------------------------------------------------------
\* Specifications
\* ------------------------------------------------------------------------
vars == <<hashVars, storeVars, enrichVars, sanitizeVars, summarizeVars,
          telegramVars, appVars, limiterVars, jaccardVars, dedupVars,
          selectVars, retryVars, scrapeVars, cancelVars, imageVars,
          cacheVars>>

\* the publication hash, on every title and link of the bounded sets
HashStart == InitHash /\ IdleStore /\ IdleEnrich /\ IdleSanitize /\
    IdleSummarize /\ IdleTelegram /\ IdleApp /\ IdleLimiter /\ IdleJaccard /\
    IdleDedup /\ IdleSelect /\ IdleRetry /\ IdleScrape /\ IdleCancel /\
    IdleImage /\ IdleCache

SpecHash == HashStart /\ [][NextHash]_vars

\* concurrent invocations of the pipeline over the Sent-Store
StoreStart == IdleHash /\ InitStore /\ IdleEnrich /\ IdleSanitize /\
    IdleSummarize /\ IdleTelegram /\ IdleApp /\ IdleLimiter /\ IdleJaccard /\
    IdleDedup /\ IdleSelect /\ IdleRetry /\ IdleScrape /\ IdleCancel /\
    IdleImage /\ IdleCache

SpecStore == StoreStart /\ [][NextStore]_vars

\* one run of the Enricher loop, for every budget and number of items
EnrichStart == IdleHash /\ IdleStore /\ InitEnrich /\ IdleSanitize /\
    IdleSummarize /\ IdleTelegram /\ IdleApp /\ IdleLimiter /\ IdleJaccard /\
    IdleDedup /\ IdleSelect /\ IdleRetry /\ IdleScrape /\ IdleCancel /\
    IdleImage /\ IdleCache

SpecEnrich == EnrichStart /\ [][NextEnrich]_vars

\* SanitizeAIText on every text of the bounded set
SanitizeStart == IdleHash /\ IdleStore /\ IdleEnrich /\ InitSanitize /\
    IdleSummarize /\ IdleTelegram /\ IdleApp /\ IdleLimiter /\ IdleJaccard /\
    IdleDedup /\ IdleSelect /\ IdleRetry /\ IdleScrape /\ IdleCancel /\
    IdleImage /\ IdleCache

SpecSanitize == SanitizeStart /\ [][NextSanitize]_vars

\* one summary field: SummarizeText over the fallback providers, then the caller
SummarizeStart == IdleHash /\ IdleStore /\ IdleEnrich /\ IdleSanitize /\
    InitSummarize /\ IdleTelegram /\ IdleApp /\ IdleLimiter /\ IdleJaccard /\
    IdleDedup /\ IdleSelect /\ IdleRetry /\ IdleScrape /\ IdleCancel /\
    IdleImage /\ IdleCache

SpecSummarize == SummarizeStart /\ [][NextSummarize]_vars

\* one call of SendMessage or of SendMessageAllowPreview, for every answer of the Bot API
TelegramStart == IdleHash /\ IdleStore /\ IdleEnrich /\ IdleSanitize /\
    IdleSummarize /\ InitTelegram /\ IdleApp /\ IdleLimiter /\ IdleJaccard /\
    IdleDedup /\ IdleSelect /\ IdleRetry /\ IdleScrape /\ IdleCancel /\
    IdleImage /\ IdleCache

SpecTelegram == TelegramStart /\ [][NextTelegram]_vars

\* the sending phase of app.Run, for every number of news, mode and answer of the Bot API
AppStart == IdleHash /\ IdleStore /\ IdleEnrich /\ IdleSanitize /\
    IdleSummarize /\ IdleTelegram /\ InitApp /\ IdleLimiter /\ IdleJaccard /\
    IdleDedup /\ IdleSelect /\ IdleRetry /\ IdleScrape /\ IdleCancel /\
    IdleImage /\ IdleCache

SpecApp == AppStart /\ [][NextApp]_vars

\* goroutines calling the public operations of the rate limiter while time passes
LimiterStart == IdleHash /\ IdleStore /\ IdleEnrich /\ IdleSanitize /\
    IdleSummarize /\ IdleTelegram /\ IdleApp /\ InitLimiter /\ IdleJaccard /\
    IdleDedup /\ IdleSelect /\ IdleRetry /\ IdleScrape /\ IdleCancel /\
    IdleImage /\ IdleCache

SpecLimiter == LimiterStart /\ [][NextLimiter]_vars

\* jaccardSimilarity on every pair of strings of the bounded set
JaccardStart == IdleHash /\ IdleStore /\ IdleEnrich /\ IdleSanitize /\
    IdleSummarize /\ IdleTelegram /\ IdleApp /\ IdleLimiter /\ InitJaccard /\
    IdleDedup /\ IdleSelect /\ IdleRetry /\ IdleScrape /\ IdleCancel /\
    IdleImage /\ IdleCache

SpecJaccard == JaccardStart /\ [][NextJaccard]_vars

\* the filter loop, on every list of feed items of the bounded sets
DedupStart == IdleHash /\ IdleStore /\ IdleEnrich /\ IdleSanitize /\
    IdleSummarize /\ IdleTelegram /\ IdleApp /\ IdleLimiter /\ IdleJaccard /\
    InitDedup /\ IdleSelect /\ IdleRetry /\ IdleScrape /\ IdleCancel /\
    IdleImage /\ IdleCache

SpecDedup == DedupStart /\ [][NextDedup]_vars

\* the Selector, on every sorted candidate list of the bounded sets
SelectStart == IdleHash /\ IdleStore /\ IdleEnrich /\ IdleSanitize /\
    IdleSummarize /\ IdleTelegram /\ IdleApp /\ IdleLimiter /\ IdleJaccard /\
    IdleDedup /\ InitSelect /\ IdleRetry /\ IdleScrape /\ IdleCancel /\
    IdleImage /\ IdleCache

SpecSelect == SelectStart /\ [][NextSelect]_vars

\* one call of WithRetry, for every configuration, every result of fn and a context that can be cancelled
RetryStart == IdleHash /\ IdleStore /\ IdleEnrich /\ IdleSanitize /\
    IdleSummarize /\ IdleTelegram /\ IdleApp /\ IdleLimiter /\ IdleJaccard /\
    IdleDedup /\ IdleSelect /\ InitRetry /\ IdleScrape /\ IdleCancel /\
    IdleImage /\ IdleCache

SpecRetry == RetryStart /\ [][NextRetry]_vars

\* the scraper run over the links of the selected items, then the content of each item
ScrapeStart == IdleHash /\ IdleStore /\ IdleEnrich /\ IdleSanitize /\
    IdleSummarize /\ IdleTelegram /\ IdleApp /\ IdleLimiter /\ IdleJaccard /\
    IdleDedup /\ IdleSelect /\ IdleRetry /\ InitScrape /\ IdleCancel /\
    IdleImage /\ IdleCache

SpecScrape == ScrapeStart /\ [][NextScrape]_vars

\* the waits of a run under a cancellation of the run
CancelStart == IdleHash /\ IdleStore /\ IdleEnrich /\ IdleSanitize /\
    IdleSummarize /\ IdleTelegram /\ IdleApp /\ IdleLimiter /\ IdleJaccard /\
    IdleDedup /\ IdleSelect /\ IdleRetry /\ IdleScrape /\ InitCancel /\
    IdleImage /\ IdleCache

SpecCancel == CancelStart /\ [][NextCancel]_vars

\* the image of a feed item
ImageStart == IdleHash /\ IdleStore /\ IdleEnrich /\ IdleSanitize /\
    IdleSummarize /\ IdleTelegram /\ IdleApp /\ IdleLimiter /\ IdleJaccard /\
    IdleDedup /\ IdleSelect /\ IdleRetry /\ IdleScrape /\ IdleCancel /\
    InitImage /\ IdleCache

SpecImage == ImageStart /\ [][NextImage]_vars

\* the in-memory cache under concurrent Set, Get and cleanup
CacheStart == IdleHash /\ IdleStore /\ IdleEnrich /\ IdleSanitize /\
    IdleSummarize /\ IdleTelegram /\ IdleApp /\ IdleLimiter /\ IdleJaccard /\
    IdleDedup /\ IdleSelect /\ IdleRetry /\ IdleScrape /\ IdleCancel /\
    IdleImage /\ InitCache

SpecCache == CacheStart /\ [][NextCache]_vars

\* ------------------------------------------------------------------------
\* Properties of the publication hash (under SpecHash)
\* ------------------------------------------------------------------------

\* C7: for every title and link the transactional store and the file store
\* compute the same publication hash, and the hash depends on nothing but
\* the title and the link it is given.
C7_StoresAgreeOnHash ==
    /\ (hFile # None /\ hPg # None) => hFile = hPg
    /\ hPg # None => hPg = FileGenerateNewsHash(hTitle, hLink)
    /\ \A b \in {"postgres", "file"} :
          AdapterGenerateNewsHash(b, hTitle, hLink) = FileGenerateNewsHash(hTitle, hLink)

\* C7, its case: both stores have hashed a title with upper case and a
\* link with a scheme, www. and a path
C7_Witness ==
    /\ hFile # None
    /\ hPg # None
    /\ hTitle = <<"A", " ">>
    /\ hLink = S_https \o S_WWW \o S_DRdk \o <<"/", "a">>

\* C8: for all title and link, hash(title, link) equals
\* hash("  " + upper(title) + "  ", link + "#fragment").
C8_HashIgnoresCaseSpaceFragment ==
    (hFile # None /\ hVar # None) => hFile = hVar

\* ------------------------------------------------------------------------
\* Properties of the Sent-Store and the publisher (under SpecStore)
\* ------------------------------------------------------------------------

\* the publication hash of item i (the same with either store, see C7)
HashOfItem(i) == FileGenerateNewsHash(ItemById[i].title, ItemById[i].link)

\* the last MarkAsSent of h recorded in mark succeeded less than TTL ago
MarkedWithinTTL(mark, h) == \E t \in mark[h] : clock - t < TTLHours

\* the store of invocation r holds a record within TTL with this hash
StoreHoldsHash(r, h) ==
    IF backend[r] = "postgres"
      THEN \E x \in pgRows : x.hash = h /\ clock - x.sentAt < TTLHours
      ELSE \E k \in DOMAIN fcItems[r] :
              fcItems[r][k].hash = h /\ clock - fcItems[r][k].sentAt < TTLHours

\* the store of invocation r holds a record within TTL with this link
StoreHoldsLink(r, link) ==
    IF backend[r] = "postgres"
      THEN \E x \in pgRows : x.link = link /\ clock - x.sentAt < TTLHours
      ELSE \E k \in DOMAIN fcItems[r] :
              fcItems[r][k].link = link /\ clock - fcItems[r][k].sentAt < TTLHours

\* this step is the pre-send check of r's current item
IsPreSendCheck(r) ==
    /\ pc[r] = "precheck"
    /\ idx[r] <= Len(queue[r])
    /\ pc'[r] = "send" \/ (pc'[r] = "precheck" /\ idx'[r] = idx[r] + 1)

\* this step is the delivery of r's current item by the transport
IsDelivery(r) ==
    /\ pc[r] = "send"
    /\ [run |-> r, item |-> queue[r][idx[r]], at |-> clock, store |-> backend[r]]
          \in sent'
    /\ pc'[r] # "send" \/ sent' # sent

\* this step is the MarkAsSent of r's current item
IsMark(r) == pc[r] = "mark" /\ pc'[r] = "precheck"

\* C1: for any interleaving of invocations that share the transactional
\* store, at most one message is sent per publication hash within the TTL
\* window, and the store holds one record for that hash.
C1_NoStoryPublishedTwice ==
    /\ \A m1, m2 \in sent :
          (/\ m1.store = "postgres"
           /\ m2.store = "postgres"
           /\ HashOfItem(m1.item) = HashOfItem(m2.item)
           /\ m1.at - m2.at < TTLHours
           /\ m2.at - m1.at < TTLHours) => m1 = m2
    /\ \A x, y \in pgRows : x.hash = y.hash => x = y

\* C2: after any MarkAsSent, concurrent or not, the store holds exactly one
\* record with the marked hash, so no two records ever share a hash; on the
\* transactional store a call that finds the record only sets its sent_at
\* to the time of the call.
C2_MarkSentOneRecordPerHash ==
    [][/\ \A x, y \in pgRows' : x.hash = y.hash => x = y
       /\ \A x, y \in fileDisk' : x.hash = y.hash => x = y
       /\ \A r \in Runs : \A k \in DOMAIN fcItems'[r] : fcItems'[r][k].hash = k
       /\ \A r \in Runs :
             (IsMark(r) /\ last'[r].ok) =>
                LET h == ItemHash(r, queue[r][idx[r]])
                IN  IF backend[r] = "postgres"
                      THEN /\ Cardinality({x \in pgRows' : x.hash = h}) = 1
                           /\ \A x \in pgRows' : x.hash = h => x.sentAt = clock
                           /\ \A x \in pgRows :
                                 x.hash = h => [x EXCEPT !.sentAt = clock] \in pgRows'
                           /\ {x \in pgRows' : x.hash # h} = {x \in pgRows : x.hash # h}
                      ELSE /\ h \in DOMAIN fcItems'[r]
                           /\ fcItems'[r][h].sentAt = clock
                           /\ \A k \in DOMAIN fcItems[r] :
                                 k # h => (k \in DOMAIN fcItems'[r]
                                           /\ fcItems'[r][k] = fcItems[r][k])
      ]_vars

\* C2, its case: two invocations have marked the same hash in the
\* transactional store, the later one at a later hour and for the other
\* link of the story, and the store holds the one record of the first call
\* with the time of the second
C2_Witness ==
    \E r1, r2 \in Runs :
        /\ r1 # r2
        /\ backend[r1] = "postgres" /\ backend[r2] = "postgres"
        /\ last[r1].call = "mark" /\ last[r1].ok
        /\ last[r2].call = "mark" /\ last[r2].ok
        /\ last[r1].item = "I1" /\ last[r2].item = "I2"
        /\ pgRows = {SentNewsItem(HashOfItem("I1"), ItemById["I1"].title, ItemById["I1"].link,
                                  ItemById["I1"].category, ItemById["I1"].source, clock)}
        /\ clock > 0

C4_IsHashSentIffRecordWithinTTL ==
    [][\A r \in Runs :
          IsPreSendCheck(r) =>
             (last'[r].hashHit <=>
                 MarkedWithinTTL(IF backend[r] = "postgres" THEN pgMark ELSE fcMark[r],
                                 ItemHash(r, queue[r][idx[r]])))
      ]_vars

\* C4 (amended): IsAlreadySent(h) answers true only if the last
\* MarkAsSent(h) that succeeded is less than TTL old, and it answers true
\* whenever that is so and the lookup itself succeeds; a lookup of the
\* transactional store that fails answers false.
C4_IsHashSentUnlessQueryFails ==
    \A h \in Hashes :
        /\ PgIsAlreadySent(pgRows, h, clock, FALSE) <=> MarkedWithinTTL(pgMark, h)
        /\ ~PgIsAlreadySent(pgRows, h, clock, TRUE)
        /\ \A r \in Runs :
              backend[r] = "file" =>
                 (FileIsAlreadySent(fcItems[r], h, clock) <=> MarkedWithinTTL(fcMark[r], h))

\* C4, its case: the transactional store still holds the record of a hash
\* whose TTL has elapsed, next to one marked within TTL, and a file cache
\* holds a record within TTL
C4_Witness ==
    /\ \E h \in Hashes :
          /\ \E t \in pgMark[h] : clock - t >= TTLHours
          /\ \E x \in pgRows : x.hash = h
    /\ \E h \in Hashes : MarkedWithinTTL(pgMark, h)
    /\ \E r \in Runs : \E h \in Hashes : backend[r] = "file" /\ MarkedWithinTTL(fcMark[r], h)

PrimaryCalls == Cardinality({k \in 1..Len(res) : res[k].primary # "skipped"})

\* C9: with a positive budget, an item processed when the counter has
\* reached the budget skips the primary provider and takes its texts from
\* the fallback providers; the counter never decreases, so this holds for
\* every remaining item, and the primary is called at most budget times.
C9_NoPrimaryOnceBudgetReached ==
    [][/\ geminiRequests' >= geminiRequests
       /\ (optsMaxGeminiRequests > 0 /\ geminiRequests >= optsMaxGeminiRequests
             /\ Len(res') = Len(res) + 1) =>
             /\ res'[Len(res')].primary = "skipped"
             /\ res'[Len(res')].summary # "gemini"
             /\ res'[Len(res')].summaryDanish # "gemini"
             /\ res'[Len(res')].summaryUkrainian # "gemini"
             /\ geminiRequests' = geminiRequests
       /\ optsMaxGeminiRequests > 0 => Cardinality({k \in 1..Len(res') :
                                          res'[k].primary # "skipped"}) <= optsMaxGeminiRequests
      ]_vars

\* C9, its case: the budget is positive, the primary was called until the
\* budget was used up, and the items after that skipped it
C9_Witness ==
    /\ optsMaxGeminiRequests > 0
    /\ geminiRequests >= optsMaxGeminiRequests
    /\ Len(res) >= optsMaxGeminiRequests + 2
    /\ res[Len(res)].primary = "skipped"
    /\ res[Len(res) - 1].primary = "skipped"

\* C11: every News the Enricher returns has a non-empty Danish summary and
\* a non-empty Ukrainian summary, whether the primary provider answered,
\* failed or was skipped, and whether the fallback providers answered or not.
C11_SummariesNeverEmpty ==
    \A k \in 1..Len(res) :
        /\ res[k].lenSummaryDanish > 0
        /\ res[k].lenSummaryUkrainian > 0

\* C11, its case: the run returned a News of each path: primary success,
\* primary failure with no fallback provider answering on a blank content
\* (the placeholder), and budget exhausted
C11_Witness ==
    /\ returned
    /\ enrichErr = "nil"
    /\ \E k \in 1..Len(res) : res[k].primary = "ok" /\ res[k].summaryDanish = "gemini"
    /\ \E k \in 1..Len(res) :
          /\ res[k].primary = "failed"
          /\ res[k].summaryDanish = "fallbackSummary"
          /\ res[k].summaryUkrainian = "fallbackSummary"
          /\ res[k].lenSummaryDanish = NoContentLen
    /\ \E k \in 1..Len(res) : res[k].primary = "skipped"

C10_CounterCountsSuccesses ==
    geminiRequests = Cardinality({k \in 1..Len(res) : res[k].primary = "ok"})

\* C10 (amended): the counter is incremented after every call of the
\* primary provider, failed or not; only an item that skips the primary
\* leaves it unchanged.
C10_CounterCountsCalls ==
    geminiRequests = PrimaryCalls

\* C10, its case: a primary call failed, one succeeded and an item skipped
\* the primary
C10_Witness ==
    /\ \E k \in 1..Len(res) : res[k].primary = "failed"
    /\ \E k \in 1..Len(res) : res[k].primary = "ok"
    /\ \E k \in 1..Len(res) : res[k].primary = "skipped"
    /\ geminiRequests = 2

\* ------------------------------------------------------------------------
\* Properties of the sanitation of AI output (under SpecSanitize)
\* ------------------------------------------------------------------------

\* the number of letters of ordinary text in s
RECURSIVE CountWords(_)
CountWords(s) ==
    IF s = <<>> THEN 0
    ELSE (IF s[1] = "w" THEN 1 ELSE 0) + CountWords(Tail(s))

\* a line of legitimate text: letters, blanks and full stops only
IsLegitLine(l) ==
    /\ \A i \in 1..Len(l) : l[i] \in {"w", " ", "."}
    /\ \E i \in 1..Len(l) : l[i] = "w"

\* a full-line disclaimer: the line starts with note: / disclaimer:
IsDisclaimerLine(l) ==
    Len(l) >= 2 /\ l[1] = "N" /\ l[2] = ":"

\* the letters of the lines of legitimate text of s
RECURSIVE LegitWordsOf(_)
LegitWordsOf(lines) ==
    IF lines = <<>> THEN 0
    ELSE (IF IsLegitLine(lines[1]) THEN CountWords(lines[1]) ELSE 0)
         + LegitWordsOf(Tail(lines))

\* C16: sanitation never empties legitimate content: when the text has a
\* line of legitimate text next to full-line disclaimers, the result is
\* not empty and keeps the letters of the legitimate lines.
C16_SanitationKeepsLegitimateText ==
    (/\ sanDone
     /\ \A i \in 1..Len(SplitLines(sanIn)) :
            IsLegitLine(SplitLines(sanIn)[i]) \/ IsDisclaimerLine(SplitLines(sanIn)[i])
     /\ LegitWordsOf(SplitLines(sanIn)) > 0)
    => /\ sanOut # <<>>
       /\ CountWords(sanOut) >= LegitWordsOf(SplitLines(sanIn))

\* ------------------------------------------------------------------------
\* Properties of one summary field (under SpecSummarize)
\* ------------------------------------------------------------------------

\* the provider answered without error and with a text that is not blank
HasText(a) == ~a.err /\ \E i \in 1..Len(a.s) : a.s[i] \notin {" ", "\n"}

\* the positions in Providers of the providers that answer with a text
Answering == {k \in 1..Len(Providers) : HasText(sumAnswers[Providers[k]])}

\* C20: the fallback providers of a summary field are called in the order
\* Groq, Cohere, Mistral, each at most once; the first answer that is not
\* empty is accepted (sanitized) and no provider after it is called; when
\* none answers, all three were called and SummarizeText fails; a field for
\* which SummarizeText gave no text receives the rule-based summary.
C20_ChainInOrderFirstAnswerWins ==
    /\ \E k \in 0..Len(Providers) : sumCalls = SubSeq(Providers, 1, k)
    /\ \A k \in 1..(Len(sumCalls) - 1) : ~HasText(sumAnswers[sumCalls[k]])
    /\ (sumPc \in {"returned", "assigned"} /\ sumText.trim > 0) =>
          IF Answering # {}
            THEN LET f == CHOOSE k \in Answering : \A j \in Answering : k <= j
                 IN  /\ sumCalls = SubSeq(Providers, 1, f)
                     /\ ~sumRet.err
                     /\ sumRet.s = SanitizeAIText(sumAnswers[Providers[f]].s)
            ELSE /\ sumCalls = Providers
                 /\ sumRet.err
    /\ sumPc = "assigned" =>
          /\ sumField.len > 0
          /\ IF sumRet.err \/ sumRet.s = <<>>
               THEN sumField = [from |-> "fallbackSummary", len |-> fallbackSummary(sumText)]
               ELSE sumField = [from |-> "SummarizeText", len |-> Len(sumRet.s)]

\* C20, its case: Groq gave nothing, Cohere answered and its text became
\* the field; Mistral, which would have answered too, was not called
C20_Witness ==
    /\ sumPc = "assigned"
    /\ ~HasText(sumAnswers["Groq"])
    /\ HasText(sumAnswers["Cohere"])
    /\ HasText(sumAnswers["Mistral"])
    /\ sumCalls = <<"Groq", "Cohere">>
    /\ sumField.from = "SummarizeText"

\* ------------------------------------------------------------------------
\* Properties of the transport (under SpecTelegram)
\* ------------------------------------------------------------------------

\* C19: SendMessageAllowPreview stops at the first attempt answered with
\* HTTP 200 and returns nil, so that one call delivers the message at most
\* once, and it returns an error only when all three attempts failed.
C19_AllowPreviewStopsAtFirst200 ==
    tgFunc = "SendMessageAllowPreview" =>
        /\ tgDeliveries <= 1
        /\ tgRet # "running" =>
              (tgRet = "nil" <=> \E k \in 1..MaxRetries : tgResponses[k] = "200")

\* ------------------------------------------------------------------------
\* Properties of the sending phase of app.Run (under SpecApp)
\* ------------------------------------------------------------------------

\* C13: an error of the transport is contained: it does not terminate the
\* process.
C13_SendErrorDoesNotEndProcess ==
    appSendErr => appExit # "fatal"

\* ------------------------------------------------------------------------
\* Properties of the rate limiter (under SpecLimiter)
\* ------------------------------------------------------------------------

\* C18: no call of a public operation of the limiter blocks forever on the
\* limiter's own lock: no goroutine waits in rl.mu.Lock() for a mutex that
\* it holds itself (sync.Mutex is not reentrant, so that wait never ends).
C18_NoCallBlocksOnOwnLock ==
    \A g \in Goroutines : ~(rlPc[g] = "lock" /\ rlMu = g)

\* ------------------------------------------------------------------------
\* Properties of the title similarity (under SpecJaccard)
\* ------------------------------------------------------------------------

\* the fraction is 1.0 / 0.0
IsOne(f) == f.num = f.den /\ f.den > 0

IsZero(f) == f.num = 0

\* s has at least one word of ASCII letters or digits
HasWord(s) == \E i \in 1..Len(s) : s[i] \in {"a", "b", "B"}

ItemsOfFate(fate) == {k \in 1..ddI : ddFate[k] = fate}

\* the candidate c shares a dedup key or a similar title with the item j
SharesKey(c, j) ==
    \/ normalizeURL(ddItems[c].link) = normalizeURL(ddItems[j].link)
    \/ makeNewsKey(ddItems[c].title, ddItems[c].description)
           = makeNewsKey(ddItems[j].title, ddItems[j].description)
    \/ makeSimilarityKey(ddItems[c]) = makeSimilarityKey(ddItems[j])
    \/ isSimilarTitle(ddItems[c].title, ddItems[j].title)

\* C17: the three in-run dedup sets are checked and updated only for
\* candidates: an item dropped by the scorer (score zero) has entered none of
\* the three sets, and every item rejected as a duplicate shares a key with an
\* earlier candidate
C17_ScorerDropsLeaveNoTrace ==
    /\ \A k \in ItemsOfFate("scoreZero") :
          /\ normalizeURL(ddItems[k].link) \notin seenLinks
          /\ makeNewsKey(ddItems[k].title, ddItems[k].description) \notin seenContent
          /\ makeSimilarityKey(ddItems[k]) \notin seenSimilar
    /\ \A j \in 1..ddI :
          ddFate[j] \in {"dupLink", "dupContent", "dupSimilar", "dupTitle"}
              => \E c \in 1..(j - 1) : ddFate[c] = "candidate" /\ SharesKey(c, j)

\* ------------------------------------------------------------------------
\* Properties of the Selector
\* ------------------------------------------------------------------------
\* no source and no category appears in s more often than its cap
WithinCaps(s) ==
    /\ \A src \in SourceNames : srcCount(s, src) <= selPerSource
    /\ \A cat \in Categories : catCount(s, cat) <= selPerCategory

selPool == WorkingPool(selCandidates, selLimit)

\* some limit items of the pool, all with a link, stay within both caps
PoolPermitsFill ==
    \E S \in SUBSET (1..Len(selPool)) :
        /\ Cardinality(S) = selLimit
        /\ \A i \in S : selPool[i].link # 0
        /\ \A src \in SourceNames :
              Cardinality({i \in S : selPool[i].source = src}) <= selPerSource
        /\ \A cat \in Categories :
              Cardinality({i \in S : selPool[i].category = cat}) <= selPerCategory

\* the greedy pass alone accepts limit items of the pool
GreedyFills ==
    Len(GreedyPass(selPool, 1, <<>>, selLimit, selPerSource, selPerCategory))
        = selLimit

Selected == selDone /\ Len(selCandidates) > 0

\* C14 as stated: the Selector returns at most limit items, and no source and
\* no category appears more than its cap whenever the pool holds limit items
\* that stay within the caps
C14_CapsHoldWhenPoolPermits ==
    Selected =>
        /\ Len(selOut) <= selLimit
        /\ PoolPermitsFill => WithinCaps(selOut)

\* C14: the Selector returns at most limit items of the pool, each once, and
\* no source and no category appears more than its cap whenever the greedy
\* pass alone accepts limit items
C14_CapsHoldWhenGreedyFills ==
    Selected =>
        /\ Len(selOut) <= selLimit
        /\ \A k \in 1..Len(selOut) : \E i \in 1..Len(selPool) : selOut[k] = selPool[i]
        /\ \A k, l \in 1..Len(selOut) : k # l => selOut[k].link # selOut[l].link
        /\ GreedyFills => WithinCaps(selOut)

\* the greedy pass skipped a candidate over a cap and still accepted limit
\* items
C14_Witness ==
    /\ Selected
    /\ GreedyFills
    /\ Len(selOut) = selLimit
    /\ \E i \in 1..Len(selPool) :
          /\ selPool[i].link # 0
          /\ \A k \in 1..Len(selOut) : selOut[k] # selPool[i]
          /\ \E k \in 1..Len(selOut) : SortsBefore(selPool[i], selOut[k])

\* the position of the returned item in the working pool
PoolIndex(item) == CHOOSE i \in 1..Len(selPool) : selPool[i] = item

\* the returned item was accepted by the greedy pass
ByGreedy(item) ==
    LET greedy == GreedyPass(selPool, 1, <<>>, selLimit, selPerSource, selPerCategory)
    IN  \E k \in 1..Len(greedy) : greedy[k] = item

SameKeys(a, b) == a.score = b.score /\ a.published = b.published

Repost ==
    /\ ddI >= 2
    /\ ~TooOld(ddItems[1])
    /\ ~TooOld(ddItems[2])
    /\ ddItems[1].link.host = ddItems[2].link.host
    /\ normalize(ddItems[1].title) = normalize(ddItems[2].title)
    /\ \/ ddItems[2].published - ddItems[1].published = 10
       \/ ddItems[1].published - ddItems[2].published = 10

\* the second item is not stopped by the first two stages
ReachesStage3 ==
    /\ normalizeURL(ddItems[1].link) # normalizeURL(ddItems[2].link)
    /\ makeNewsKey(ddItems[1].title, ddItems[1].description)
           # makeNewsKey(ddItems[2].title, ddItems[2].description)

\* C21 as stated: of a repost only the first item passes the Deduper, the
\* second is rejected at stage 3, whatever the two publication times
C21_RepostRejectedAtStage3 ==
    Repost =>
        /\ ddFate[1] \in {"scoreZero", "candidate"}
        /\ ddFate[2] = "dupSimilar"

\* C21: the first item of a repost passes the Deduper; the second, when the
\* first two stages let it through, is rejected at stage 3 exactly if both
\* publication times lie in the same six-hour window and the key words of
\* title and description agree; otherwise stage 4 rejects it exactly if the
\* first item became a candidate and the titles are similar
C21_RepostRejectedWithinWindow ==
    Repost =>
        /\ ddFate[1] \in {"scoreZero", "candidate"}
        /\ ReachesStage3 =>
              /\ ddFate[2] = "dupSimilar"
                    <=> /\ WindowStart(ddItems[1].published)
                               = WindowStart(ddItems[2].published)
                        /\ TopWords(ddItems[1]) = TopWords(ddItems[2])
              /\ ddFate[2] = "dupTitle"
                    <=> /\ ddFate[2] # "dupSimilar"
                        /\ ddFate[1] = "candidate"
                        /\ isSimilarTitle(ddItems[2].title, ddItems[1].title)

\* a repost within one window, stopped at stage 3
C21_Witness ==
    /\ Repost
    /\ ReachesStage3
    /\ ddItems[1].title # ddItems[2].title
    /\ ddFate[2] = "dupSimilar"

\* ------------------------------------------------------------------------
\* Properties of the near-duplicate check on titles
\* ------------------------------------------------------------------------
\* the 2-gram shingle similarity of the two titles is at least 0.55
SimilarityReached(a, b) ==
    LET score == jaccardSimilarity(a, b, 2)
    IN  score.num * 100 >= 55 * score.den

Dropped(j) ==
    ddFate[j] \in {"old", "dupLink", "dupContent", "dupSimilar", "dupTitle"}

\* every item whose title is similar to the title of a candidate accepted
\* before it is dropped
SimilarToCandidateIsDropped ==
    \A j \in 1..ddI :
        (\E c \in 1..(j - 1) :
            /\ ddFate[c] = "candidate"
            /\ SimilarityReached(ddItems[j].title, ddItems[c].title))
        => Dropped(j)

\* the first two items carry the same title text on different hosts, the
\* first became a candidate and the second is young enough
Syndicated ==
    /\ ddI >= 2
    /\ ddItems[1].title = ddItems[2].title
    /\ ddItems[1].link.host # ddItems[2].link.host
    /\ ddFate[1] = "candidate"
    /\ ~TooOld(ddItems[2])

C23_NilIffSomeInvocationSucceeded ==
    /\ Len(rtResults) <= rtMaxAttempts
    /\ \A k \in 1..(Len(rtResults) - 1) : rtResults[k] # "nil"
    /\ rtRet # "running" =>
          /\ rtRet = "nil" <=> \E k \in 1..Len(rtResults) : rtResults[k] = "nil"
          /\ rtRet = "failed after attempts" => Len(rtResults) = rtMaxAttempts
          /\ rtRet = "ctx.Err()" => rtCtxDone

\* ------------------------------------------------------------------------
\* Properties of the scraper run
\* ------------------------------------------------------------------------
Min(a, b) == IF a < b THEN a ELSE b

\* C25: the scraper hands at most ScrapeMaxArticles URLs to the extraction,
\* at most ScrapeConcurrency requests are under way at a time, and once the
\* scraper has returned every selected item up to ScrapeMaxArticles had its
\* attempt
C25_ScrapesUpToConfiguredMax ==
    /\ Cardinality(scAttempted) <= scMaxArticles
    /\ Cardinality(scInFlight) <= scConcurrency
    /\ scPc = "content" =>
          \A i \in 1..Min(scUrls, scMaxArticles) : i \in scAttempted

\* what ExtractFullArticle gave for the URL of selected item k: an article
\* the scraper put into its result, or none
Scraped(k) == IF k \in DOMAIN scResult THEN scResult[k] ELSE NoArticle

\* C26 as stated: an item whose scraped body has 200 or more characters has
\* the body as its content, and with fewer characters, or without a body,
\* it keeps the feed description
C26_BodyOf200CharsReplaces ==
    \A k \in 1..Len(scContent) :
        scContent[k] = "article" <=> Scraped(k).ok /\ Scraped(k).content.chars >= 200

\* C26: an item has the scraped body as its content exactly when the
\* scraper's result holds a body of more than 200 bytes for its link;
\* otherwise it keeps the feed description
C26_BodyOver200BytesReplaces ==
    \A k \in 1..Len(scContent) :
        scContent[k] = "article" <=> Scraped(k).ok /\ Scraped(k).content.raw > 200

\* a body of exactly 200 bytes was left aside, and a body of 190 characters
\* in 210 bytes was taken
C26_Witness ==
    \E j, k \in 1..Len(scContent) :
        /\ Scraped(j).ok /\ Scraped(j).content.raw = 200 /\ scContent[j] = "description"
        /\ Scraped(k).ok /\ Scraped(k).content.chars < 200 /\ scContent[k] = "article"

\* ------------------------------------------------------------------------
\* Properties of the run under cancellation
\* ------------------------------------------------------------------------
\* C27: after the run-level cancellation no wait of the pipeline, neither
\* the pause between items nor the back-off of the transport, runs to its
\* end, and no further outbound call is started: whatever is under way
\* aborts at its next suspension point
C27_CancellationAbortsWaits == cnCallsAfter = 0 /\ cnWaitsAfter = 0

\* ------------------------------------------------------------------------
\* Properties of the image of an item
\* ------------------------------------------------------------------------
IsDataURL(u) == LowerPart(u.scheme) = "data:"

EndsInSvg(u) == LowerPart(u.ext) = ".svg"

\* C28: whichever step gave it, the image URL of an item is not a data:
\* URL and does not end in .svg
C28_NeverDataNorSvg ==
    imStep \notin {"start", "none"} => ~IsDataURL(imURL) /\ ~EndsInSvg(imURL)

\* ------------------------------------------------------------------------
\* Properties of the counters of the rate limiter
\* ------------------------------------------------------------------------
RECURSIVE SumOver(_, _)
SumOver(f, S) ==
    IF S = {} THEN 0
    ELSE LET p == CHOOSE q \in S : TRUE IN f[p] + SumOver(f, S \ {p})

CountersWithinLimits ==
    /\ \A p \in RlProviders : RlMax[p] > 0 => rlCount[p] <= RlMax[p]
    /\ MaxTotal > 0 => rlTotal <= MaxTotal
    /\ rlTotal = SumOver(rlCount, RlProviders)

\* the step in which a Use<p> or CanUse<p> of goroutine g returns a refusal
Refusal(g) == rlPc[g] = "body" /\ rlPc'[g] = "idle" /\ rlResult'[g] = "refused"

\* C29: whatever calls were made, the count of a provider with a positive
\* limit is within the limit, the total is within maxTotal, the total is the
\* sum of the provider counts, and a call that is refused changes no counter
C29_CountersWithinLimits ==
    /\ []CountersWithinLimits
    /\ [][\A g \in Goroutines : Refusal(g) => UNCHANGED <<rlCount, rlTotal>>]_vars

\* the total stands at maxTotal by calls of the provider without a limit of
\* its own, the other provider was refused at its own limit or at the total
C29_Witness ==
    /\ rlTotal = MaxTotal
    /\ rlCount["Gemini"] > RlMax["Gemini"]
    /\ \E g \in Goroutines : rlResult[g] = "refused"

\* ------------------------------------------------------------------------
\* Properties of the in-memory cache
\* ------------------------------------------------------------------------
\* C30: a goroutine that is changing c.items holds c.mu for writing, so no
\* change of the map happens while another goroutine reads or changes it
C30_MapChangedUnderWriteLockOnly ==
    \A g \in CacheCallers :
        chPc[g] \in MapWrites => chWriter = {g} /\ ~Racing(g)

=============================================================================
